---- MODULE Spec2Model ----
(***************************************************************************)
(* Model of the fractal image pipeline and the poll service of stu-workers:*)
(*   src/src/fractal.js      generateFractal (seeded generator, parameter  *)
(*                           selection, escape-time loop, grayscale map)   *)
(*   src/unnamed/part_005    createMinimalBMP / createMinimalPNG           *)
(*   src/src/index.js        handleFractalRequest, fetch, poll handlers    *)
(*   src/unnamed/part_007    createPoll, vote, resetPoll, deletePoll       *)
(*   src/src/middleware/validateApiKey.js   validateApiKey                 *)
(*   src/scripts/generate-api-key.js        generateApiKey                 *)
(*                                                                         *)
(* Number representation.  TLC integers are 32-bit signed, so an unsigned  *)
(* 32-bit word is the pair <<hi, lo>> of its 16-bit halves, and an IEEE    *)
(* double that must be exact is an integer mantissa held as a sequence of  *)
(* base-2^14 limbs together with a binary exponent.                        *)
(***************************************************************************)
EXTENDS Integers, Sequences, FiniteSets, TLC

VARIABLES
    seed,       \* SpecGen: the seed the generator closure was created with
    state,      \* the generator closure's `state` cell (fractal.js:23, index.js:711)
    draws,      \* SpecGen: number of random() calls made so far
    value,      \* SpecGen: the last value random() returned, or None
    input,      \* SpecMap, SpecBmp, SpecPng, SpecArgs, SpecVariant: the arguments of the function applied
    output,     \* SpecMap, SpecBmp, SpecPng, SpecArgs, SpecVariant: what it returned, or None before the call
    pending,    \* Spec, SpecDims: the /fractal request being delivered, or None
    resp,       \* Spec, SpecDims: what the last handleFractalRequest call computed, or None
    first,      \* Spec: the first response to the watched arguments, or None
    db,         \* SpecPoll, SpecAuth: the rows of the D1 tables polls, poll_options and poll_voters
    now,        \* SpecPoll, SpecAuth, SpecKey: Date.now() in milliseconds
    env         \* SpecPoll, SpecAuth: the worker's bindings ENVIRONMENT, NODE_ENV, MASTER_KEY

vars == <<seed, state, draws, value, input, output, pending, resp, first, db, now, env>>

\* An optional value is a sequence of length 0 (absent) or 1 (present).
None == <<>>
Some(x) == <<x>>

\* A JavaScript number that may be NaN: Num(n) for the integer n, NaN for the
\* result of parseInt on text that does not start with an integer.
NaN == <<>>
Num(n) == <<n>>
IsNaN(v) == v = NaN

\* ------------------------------------------------------------------------
\* Bounds of the model
\* ------------------------------------------------------------------------
MaxDraws == 24      \* SpecGen: draws per closure
MaxReqSize == 2     \* Spec: largest width and height requested
MaxReqIter == 3     \* Spec: largest iter requested
MaxMapIter == 12    \* SpecMap: iteration caps 1..MaxMapIter (and 225)
MaxBmpWidth == 5    \* SpecBmp: largest width encoded
MaxBmpHeight == 3   \* SpecBmp: largest height encoded
MaxPngWidth == 5     \* SpecPng: largest width encoded
MaxPngHeight == 3    \* SpecPng: largest height encoded
MaxArg == 100000     \* SpecArgs: largest width, height and iter requested
MaxDim == 2          \* SpecDims: widths and heights -MaxDim..MaxDim requested
MaxOver == 2         \* SpecBlock: requested sizes up to the PNG maxima + MaxOver
Scale == 1024       \* fixed-point steps per unit of the plane coordinates

\* ------------------------------------------------------------------------
\* Unsigned 32-bit words as <<hi, lo>>
\* ------------------------------------------------------------------------
Half == 65536

U32(n) == <<n \div Half, n % Half>>

\* w1 < w2 as unsigned numbers
LessU32(w1, w2) == \/ w1[1] < w2[1]
                   \/ (w1[1] = w2[1] /\ w1[2] < w2[2])

\* ------------------------------------------------------------------------
\* The seeded generator: fractal.js:22-28, index.js:710-717
\* ------------------------------------------------------------------------
LcgMultiplier == 1664525
LcgIncrement  == 1013904223

\* 0xFFFFFFFF, the divisor of `state / 0xFFFFFFFF`
Divisor == <<Half - 1, Half - 1>>

\* mutant: the multiplier mistyped by one
RandomStateOffByOne(s) ==
    LET a   == U32(LcgMultiplier + 1)
        c   == U32(LcgIncrement)
        lo  == s[2] * a[2] + c[2]
        hi  == s[1] * a[2] + s[2] * a[1] + c[1] + (lo \div Half)
    IN  <<hi % Half, lo % Half>>

\* state = (state * 1664525 + 1013904223) >>> 0
\* The product of a 32-bit state and the 21-bit multiplier is below 2^53, so
\* the double arithmetic of the source is exact and >>> 0 reduces mod 2^32.
RandomState(s) ==
    LET a   == U32(LcgMultiplier)
        c   == U32(LcgIncrement)
        lo  == s[2] * a[2] + c[2]
        hi  == s[1] * a[2] + s[2] * a[1] + c[1] + (lo \div Half)
    IN  <<hi % Half, lo % Half>>

\* return state / 0xFFFFFFFF
\* The quotient is kept as the exact fraction num/den of two 32-bit words.
RandomValue(s) == [num |-> s, den |-> Divisor]

\* ------------------------------------------------------------------------
\* SpecGen: one generator closure, created with a seed and drawn from
\* ------------------------------------------------------------------------
\* 653637408 is the seed whose first draw leaves state = 0xFFFFFFFF,
\* 2480864133 the one whose second draw does.
Seeds == {U32(0), U32(1), U32(12345), U32(67890), <<Half - 1, Half - 1>>,
          <<9973, 46880>>, <<37854, 64389>>}

InitGen ==
    /\ seed \in Seeds
    /\ state = seed
    /\ draws = 0
    /\ value = None
    /\ input = None /\ output = None
    /\ pending = None /\ resp = None /\ first = None /\ db = None /\ now = None /\ env = None

\* one call of random()
Random ==
    /\ draws < MaxDraws
    /\ state' = RandomState(state)
    /\ value' = Some(RandomValue(RandomState(state)))
    /\ draws' = draws + 1
    /\ UNCHANGED <<seed, input, output, pending, resp, first, db, now, env>>

NextGen == Random

SpecGen == InitGen /\ [][NextGen]_vars

\* ------------------------------------------------------------------------
\* Exact IEEE-754 double arithmetic for the grayscale mapping.
\* A natural number is a little-endian sequence of base-2^14 limbs without
\* leading zero limbs; a positive double is [m |-> mantissa, e |-> exponent]
\* and stands for m * 2^e, with m of at most 53 bits after rounding.
\* ------------------------------------------------------------------------
Limb == 16384
LimbBits == 14
MantissaBits == 53

RECURSIVE Pow2(_)
Pow2(k) == IF k = 0 THEN 1 ELSE 2 * Pow2(k - 1)

RECURSIVE BitLen(_)
BitLen(n) == IF n = 0 THEN 0 ELSE 1 + BitLen(n \div 2)

RECURSIVE BigNorm(_)
BigNorm(a) == IF a = <<>> THEN a
              ELSE IF a[Len(a)] = 0 THEN BigNorm(SubSeq(a, 1, Len(a) - 1))
              ELSE a

RECURSIVE BigFromInt(_)
BigFromInt(n) == IF n = 0 THEN <<>> ELSE <<n % Limb>> \o BigFromInt(n \div Limb)

BigBitLen(a) == IF a = <<>> THEN 0
                ELSE (Len(a) - 1) * LimbBits + BitLen(a[Len(a)])

\* a * k + carry for a small k (k < 2^16)
RECURSIVE BigMulSmallFrom(_, _, _, _)
BigMulSmallFrom(a, k, i, carry) ==
    IF i > Len(a) THEN BigFromInt(carry)
    ELSE LET t == a[i] * k + carry
         IN  <<t % Limb>> \o BigMulSmallFrom(a, k, i + 1, t \div Limb)

BigMulSmall(a, k) == BigNorm(BigMulSmallFrom(a, k, 1, 0))

BigAddSmall(a, k) == BigNorm(BigMulSmallFrom(a, 1, 1, k))

\* a * 2^k
BigShl(a, k) ==
    IF a = <<>> THEN a
    ELSE [j \in 1..(k \div LimbBits) |-> 0] \o BigMulSmall(a, Pow2(k % LimbBits))

\* quotient and remainder of a by a small d (d < 2^16), from the top limb down
RECURSIVE BigDivSmallFrom(_, _, _, _, _)
BigDivSmallFrom(a, d, i, rem, q) ==
    IF i = 0 THEN [q |-> BigNorm(q), r |-> rem]
    ELSE LET t == rem * Limb + a[i]
         IN  BigDivSmallFrom(a, d, i - 1, t % d, <<t \div d>> \o q)

BigDivSmall(a, d) == BigDivSmallFrom(a, d, Len(a), 0, <<>>)

\* floor(a / 2^k)
RECURSIVE BigShr(_, _)
BigShr(a, k) ==
    IF k = 0 THEN a
    ELSE IF k >= LimbBits THEN BigShr(BigNorm(SubSeq(a, 2, Len(a))), k - LimbBits)
    ELSE BigDivSmall(a, Pow2(k)).q

\* -1, 0, 1 as a < b, a = b, a > b (both normalised)
RECURSIVE BigCmpFrom(_, _, _)
BigCmpFrom(a, b, i) ==
    IF i = 0 THEN 0
    ELSE IF a[i] < b[i] THEN -1
    ELSE IF a[i] > b[i] THEN 1
    ELSE BigCmpFrom(a, b, i - 1)

BigCmp(a, b) ==
    IF Len(a) < Len(b) THEN -1
    ELSE IF Len(a) > Len(b) THEN 1
    ELSE BigCmpFrom(a, b, Len(a))

RECURSIVE SumTo(_, _, _)
SumTo(f, lo, hi) == IF lo > hi THEN 0 ELSE f[lo] + SumTo(f, lo + 1, hi)

\* schoolbook product: column sums, then carry propagation
RECURSIVE BigCarry(_, _, _)
BigCarry(cols, i, carry) ==
    IF i > Len(cols) THEN BigFromInt(carry)
    ELSE LET t == cols[i] + carry
         IN  <<t % Limb>> \o BigCarry(cols, i + 1, t \div Limb)

BigMul(a, b) ==
    IF a = <<>> \/ b = <<>> THEN <<>>
    ELSE LET la == Len(a)
             lb == Len(b)
             Max2(x, y) == IF x > y THEN x ELSE y
             Min2(x, y) == IF x < y THEN x ELSE y
             col(k) == LET lo == Max2(1, k + 1 - lb)
                           hi == Min2(la, k)
                       IN  SumTo([i \in lo..hi |-> a[i] * b[k + 1 - i]], lo, hi)
             cols == [k \in 1..(la + lb - 1) |-> col(k)]
         IN  BigNorm(BigCarry(cols, 1, 0))

\* round an integer mantissa n (times 2^e, plus a non-zero tail below it when
\* sticky) to 53 bits, to nearest, ties to even
Round53(n, e, sticky) ==
    LET len == BigBitLen(n)
        d   == len - MantissaBits
    IN  IF d <= 0 THEN [m |-> n, e |-> e]
        ELSE LET qr   == BigDivSmall(n, Pow2(d))
                 half == Pow2(d - 1)
                 odd  == qr.q # <<>> /\ qr.q[1] % 2 = 1
                 up   == \/ qr.r > half
                         \/ (qr.r = half /\ (sticky \/ odd))
             IN  [m |-> IF up THEN BigAddSmall(qr.q, 1) ELSE qr.q, e |-> e + d]

\* the double i / m for integers 0 < i, m < 2^16
DoubleDiv(i, m) ==
    LET k  == MantissaBits + 1 + BitLen(m) - BitLen(i)
        qr == BigDivSmall(BigShl(BigFromInt(i), k), m)
    IN  Round53(qr.q, 0 - k, qr.r # 0)

\* floor(sqrt(n)) of a natural number n of at most 108 bits, bit by bit from
\* bit `hi` down to bit `lo`: a bit is set when the square still fits.  The
\* bit range is halved, and the upper half is finished before the lower one
\* starts (the test on `upper` makes TLC compute it first), so that the
\* evaluation stays shallow.
RECURSIVE ISqrtBits(_, _, _, _)
ISqrtBits(n, r, hi, lo) ==
    IF hi = lo
    THEN LET cand == [r EXCEPT ![hi \div LimbBits + 1] = @ + Pow2(hi % LimbBits)]
             c    == BigNorm(cand)
         IN  IF BigCmp(BigMul(c, c), n) <= 0 THEN cand ELSE r
    ELSE LET mid   == (hi + lo) \div 2
             upper == ISqrtBits(n, r, hi, mid + 1)
         IN  IF Len(upper) = Len(r) THEN ISqrtBits(n, upper, mid, lo) ELSE upper

ISqrt(n) == BigNorm(ISqrtBits(n, <<0, 0, 0, 0>>, MantissaBits, 0))

\* Math.sqrt of a positive double: correctly rounded
DoubleSqrt(x) ==
    LET len == BigBitLen(x.m)
        t0  == 2 * MantissaBits + 1 - len
        t   == IF (x.e - t0) % 2 = 0 THEN t0 ELSE t0 + 1
        n   == BigShl(x.m, t)
        r   == ISqrt(n)
    IN  Round53(r, (x.e - t) \div 2, BigCmp(BigMul(r, r), n) # 0)

\* k * x for a small integer k
DoubleMulSmall(k, x) == Round53(BigMulSmall(x.m, k), x.e, FALSE)

\* Math.floor of a positive double below 2^14
DoubleFloor(x) ==
    LET q == IF x.e >= 0 THEN BigShl(x.m, x.e) ELSE BigShr(x.m, 0 - x.e)
    IN  IF q = <<>> THEN 0 ELSE q[1]

\* ------------------------------------------------------------------------
\* Grayscale mapping: fractal.js:82-88
\* ------------------------------------------------------------------------
\* a store into a Uint8Array element keeps the low 8 bits
ToUint8(n) == n % 256

\* mutant: a linear gradient in place of the square-root one
IntensityLinear(i, maxIter) ==
    IF i = maxIter THEN 0 ELSE ToUint8((255 * i) \div maxIter)

\* mutant: the inside-the-set test dropped
IntensityNoInside(i, maxIter) ==
    IF i = 0 THEN 0
    ELSE ToUint8(DoubleFloor(DoubleMulSmall(255, DoubleSqrt(DoubleDiv(i, maxIter)))))

\* if (i === maxIter) 0 else Math.floor(255 * Math.sqrt(i / maxIter)),
\* evaluated in doubles as the source does (0 / maxIter is exactly 0)
Intensity(i, maxIter) ==
    IF i = maxIter THEN 0
    ELSE IF i = 0 THEN ToUint8(0)
    ELSE ToUint8(DoubleFloor(DoubleMulSmall(255, DoubleSqrt(DoubleDiv(i, maxIter)))))

\* the mapping for every iteration cap the handler machine uses, computed once
IntensityTable == [m \in 1..MaxReqIter |-> [i \in 0..m |-> Intensity(i, m)]]

\* ------------------------------------------------------------------------
\* Plane coordinates.  The doubles zoom, centerX, ..., zx, zy are carried in
\* fixed point: the integer v stands for v / Scale, and every product or
\* quotient is rounded down to the next multiple of 1 / Scale.
\* ------------------------------------------------------------------------
Fx(n, d) == (n * Scale) \div d

FxMul(a, b) == (a * b) \div Scale

Abs(v) == IF v < 0 THEN 0 - v ELSE v

\* the value state / 0xFFFFFFFF of a draw, in fixed point
RandomFx(s) == IF s = Divisor THEN Scale ELSE (s[1] * Scale) \div Half

\* fractal.js:31-37: the states after each of n successive calls of random(),
\* starting from state s
RECURSIVE Draws(_, _)
Draws(s, n) == IF n = 0 THEN <<>> ELSE <<RandomState(s)>> \o Draws(RandomState(s), n - 1)

\* mutant: centerX drawn before zoom
FractalParamsReordered(s0, fractalType) ==
    LET d == Draws(s0, 5)
        isJulia == fractalType = "julia"
    IN  [ draws   |-> d,
          zoom    |-> Fx(28, 10) + FxMul(RandomFx(d[2]), Fx(8, 10)),
          centerX |-> IF isJulia THEN 0
                      ELSE FxMul(RandomFx(d[1]) - Fx(1, 2), Fx(3, 10)) - Fx(65, 100),
          centerY |-> IF isJulia THEN 0
                      ELSE FxMul(RandomFx(d[3]) - Fx(1, 2), Fx(3, 10)),
          juliaX  |-> FxMul(RandomFx(d[4]), Fx(8, 10)) - Fx(4, 10),
          juliaY  |-> FxMul(RandomFx(d[5]), Fx(8, 10)) - Fx(4, 10) ]

\* fractal.js:30-43: the five draws and the parameters made of them
\* `s0` is the generator state before the first draw
FractalParams(s0, fractalType) ==
    LET d == Draws(s0, 5)
        isJulia == fractalType = "julia"
    IN  [ draws   |-> d,
          zoom    |-> Fx(28, 10) + FxMul(RandomFx(d[1]), Fx(8, 10)),
          centerX |-> IF isJulia THEN 0
                      ELSE FxMul(RandomFx(d[2]) - Fx(1, 2), Fx(3, 10)) - Fx(65, 100),
          centerY |-> IF isJulia THEN 0
                      ELSE FxMul(RandomFx(d[3]) - Fx(1, 2), Fx(3, 10)),
          juliaX  |-> FxMul(RandomFx(d[4]), Fx(8, 10)) - Fx(4, 10),
          juliaY  |-> FxMul(RandomFx(d[5]), Fx(8, 10)) - Fx(4, 10) ]

\* fractal.js:49-50: cx = (x - width / 2) * zoom / width + centerX
PlaneCoord(x, size, zoom, center) ==
    ((2 * x - size) * zoom) \div (2 * size) + center

\* mutant: the loop runs while i <= maxIter
LoopTestInclusive(zx, zy, i, maxIter) ==
    zx * zx + zy * zy <= 4 * Scale * Scale /\ i <= maxIter

\* mutant: escape radius 1 in place of 2
LoopTestRadius1(zx, zy, i, maxIter) ==
    zx * zx + zy * zy <= Scale * Scale /\ i < maxIter

\* fractal.js:59: while (zx * zx + zy * zy <= 4 && i < maxIter)
LoopTest(zx, zy, i, maxIter) ==
    zx * zx + zy * zy <= 4 * Scale * Scale /\ i < maxIter

\* mutant: the variant names matched without regard to case
UpdateAnyCase(fractalType, zx, zy, cx, cy, juliaX, juliaY) ==
    LET re == FxMul(zx, zx) - FxMul(zy, zy)
        im == 2 * FxMul(zx, zy)
    IN  CASE fractalType \in {"julia", "Julia", "JULIA"} -> <<re + juliaX, im + juliaY>>
          [] fractalType \in {"burningship", "BurningShip", "BURNINGSHIP"}
                                         -> <<re + cx, Abs(im) + cy>>
          [] OTHER                       -> <<re + cx, im + cy>>

\* fractal.js:60-78: one update of (zx, zy) by the rule of the variant;
\* every string other than 'julia' and 'burningship' takes the default case
Update(fractalType, zx, zy, cx, cy, juliaX, juliaY) ==
    LET re == FxMul(zx, zx) - FxMul(zy, zy)
        im == 2 * FxMul(zx, zy)
    IN  CASE fractalType = "julia"       -> <<re + juliaX, im + juliaY>>
          [] fractalType = "burningship" -> <<re + cx, Abs(im) + cy>>
          [] OTHER                       -> <<re + cx, im + cy>>

\* fractal.js:58-80: the points (zx, zy) the loop condition was evaluated at,
\* in order; the loop made Len - 1 updates, which is the final i
RECURSIVE EscapeLoop(_, _, _, _, _, _, _, _, _)
EscapeLoop(fractalType, zx, zy, cx, cy, juliaX, juliaY, i, maxIter) ==
    IF LoopTest(zx, zy, i, maxIter)
    THEN LET z == Update(fractalType, zx, zy, cx, cy, juliaX, juliaY)
         IN  <<<<zx, zy>>>> \o
             EscapeLoop(fractalType, z[1], z[2], cx, cy, juliaX, juliaY, i + 1, maxIter)
    ELSE <<<<zx, zy>>>>

\* fractal.js:46-56: the orbit of pixel (x, y)
PixelOrbit(x, y, width, height, maxIter, fractalType, P) ==
    LET cx == PlaneCoord(x, width, P.zoom, P.centerX)
        cy == PlaneCoord(y, height, P.zoom, P.centerY)
        isJulia == fractalType = "julia"
    IN  EscapeLoop(fractalType, IF isJulia THEN cx ELSE 0, IF isJulia THEN cy ELSE 0,
                   cx, cy, P.juliaX, P.juliaY, 0, maxIter)

\* mutant: the generator keeps the state the previous closure left behind
InitialStateShared(seedArg, prior) == prior

\* fractal.js:23, index.js:711: let state = seed.  `prior` is the state cell
\* of the previous closure, which a fresh closure does not read.
InitialState(seedArg, prior) == seedArg

\* new Uint8Array(n), new ArrayBuffer(n): NaN gives length 0 and a negative
\* length raises a RangeError
ToIndex(n) == IF IsNaN(n) THEN 0 ELSE n[1]
IndexThrows(n) == ~IsNaN(n) /\ n[1] < 0

\* the product of two numbers
Times(a, b) == IF IsNaN(a) \/ IsNaN(b) THEN NaN ELSE Num(a[1] * b[1])

\* fractal.js:46-47: some pixel is visited by the loops y < height, x < width
LoopsRun(width, height) ==
    ~IsNaN(width) /\ ~IsNaN(height) /\ width[1] > 0 /\ height[1] > 0

\* fractal.js:82-88 for a pixel whose loop ended with count i; NaN maxIter
\* makes i === maxIter false and the stored Math.floor(NaN) is 0
PixelValue(i, maxIter) ==
    IF IsNaN(maxIter) THEN 0
    ELSE IF maxIter[1] \in DOMAIN IntensityTable THEN IntensityTable[maxIter[1]][i]
    ELSE Intensity(i, maxIter[1])

\* fractal.js:18-93.  width, height and maxIter are numbers that may be NaN.
\* Pixel (x, y) is element y * width + x + 1 of the sequences; iters is the
\* final i of each pixel the loops visit (i < NaN is false, like i < 0).
\* threw: new Uint8Array(width * height) raised a RangeError.
generateFractal(width, height, maxIter, seedArg, fractalType, prior) ==
    LET P      == FractalParams(InitialState(seedArg, prior), fractalType)
        threw  == IndexThrows(Times(width, height))
        size   == IF threw THEN 0 ELSE ToIndex(Times(width, height))
        ran    == LoopsRun(width, height)
        bound  == IF IsNaN(maxIter) THEN 0 ELSE maxIter[1]
        orbit  == IF ~ran THEN <<>>
                  ELSE [p \in 1..size |->
                          PixelOrbit((p - 1) % width[1], (p - 1) \div width[1],
                                     width[1], height[1], bound, fractalType, P)]
        iters  == [p \in 1..Len(orbit) |-> Len(orbit[p]) - 1]
    IN  [ threw     |-> threw,
          params    |-> P,
          orbit     |-> orbit,
          iters     |-> iters,
          pixelData |-> [p \in 1..size |->
                           IF ran THEN PixelValue(iters[p], maxIter) ELSE 0],
          state     |-> P.draws[5] ]

\* ------------------------------------------------------------------------
\* createMinimalBMP: src/unnamed/part_005:1-51
\* A byte buffer is a sequence; the byte at offset o is element o + 1.
\* ------------------------------------------------------------------------
\* DataView.setUint16 / setUint32 / setInt32 with littleEndian = true:
\* the low bytes of the two's complement of n
LE16(n) == <<n % 256, (n \div 256) % 256>>

LE32(n) == <<n % 256, (n \div 256) % 256, (n \div 65536) % 256,
             (n \div 16777216) % 256>>

HeaderSize == 54
PaletteSize == 256 * 4
PixelsPerMeter == 2835

\* mutant: rows not padded to a multiple of four bytes
RowSizeUnpadded(width) == width

\* part_005:2: Math.floor((width * 8 + 31) / 32) * 4
RowSize(width) == ((width * 8 + 31) \div 32) * 4

\* mutant: the height stored positive (bottom-up rows)
DibHeightBottomUp(height) == height

\* part_005:20: view.setInt32(22, -height, true)
DibHeight(height) == 0 - height

\* mutant: the palette left out of the declared file size
FileSizeNoPalette(width, height) == HeaderSize + RowSize(width) * height

\* part_005:3-6: fileSize = headerSize + paletteSize + rowSize * height
FileSize(width, height) == HeaderSize + PaletteSize + RowSize(width) * height

\* part_005:11-28: the 14-byte file header and the 40-byte DIB header
BmpHeader(width, height) ==
    LE16(19778) \o LE32(FileSize(width, height)) \o LE32(0) \o
    LE32(HeaderSize + PaletteSize) \o
    LE32(40) \o LE32(width) \o LE32(DibHeight(height)) \o LE16(1) \o LE16(8) \o
    LE32(0) \o LE32(RowSize(width) * height) \o
    LE32(PixelsPerMeter) \o LE32(PixelsPerMeter) \o LE32(256) \o LE32(256)

\* part_005:30-37: palette entry i is the four bytes (i, i, i, 0)
PaletteByte(k) == IF k % 4 = 3 THEN 0 ELSE k \div 4

\* mutant: rows written bottom-up
PixelByteBottomUp(k, width, height, pixelData) ==
    IF width <= 0 \/ height <= 0 THEN 0
    ELSE LET y == k \div RowSize(width)
             x == k % RowSize(width)
         IN  IF x < width THEN pixelData[(height - 1 - y) * width + x + 1] ELSE 0

\* part_005:39-48: byte k of the pixel area: row y = k div rowSize holds the
\* width pixels of grid row y and then zeros up to rowSize; with a width or
\* height that is not positive no pixel is written and the area stays zero
PixelByte(k, width, height, pixelData) ==
    IF width <= 0 \/ height <= 0 THEN 0
    ELSE LET y == k \div RowSize(width)
             x == k % RowSize(width)
         IN  IF x < width THEN pixelData[y * width + x + 1] ELSE 0

\* part_005:45-47 with a negative width and rowSize = 0: the tail loop runs
\* x from width to -1 and zeroes the bytes just below the pixel area
TailBelowData(o, width, height) ==
    height > 0 /\ width < 0 /\ o - (HeaderSize + PaletteSize) >= width

\* part_005:8-37: new ArrayBuffer(fileSize) raises for a negative fileSize,
\* and a header or palette write raises when the buffer is shorter than
\* header and palette
BmpRaises(width, height) == FileSize(width, height) < HeaderSize + PaletteSize

\* part_005:8-50: a zero-filled buffer of fileSize bytes, then the writes
createMinimalBMP(width, height, pixelData) ==
    LET header     == BmpHeader(width, height)
        dataOffset == HeaderSize + PaletteSize
    IN  [n \in 1..FileSize(width, height) |->
           LET o == n - 1
           IN  IF o < HeaderSize THEN header[n]
               ELSE IF o < dataOffset
                    THEN IF TailBelowData(o, width, height) THEN 0
                         ELSE PaletteByte(o - HeaderSize)
               ELSE PixelByte(o - dataOffset, width, height, pixelData)]

\* ------------------------------------------------------------------------
\* createMinimalPNG: src/unnamed/part_005:52-134
\* ------------------------------------------------------------------------
\* bitwise exclusive or of two naturals
RECURSIVE Xor(_, _)
Xor(a, b) == IF a = 0 THEN b
             ELSE IF b = 0 THEN a
             ELSE ((a + b) % 2) + 2 * Xor(a \div 2, b \div 2)

XorU32(v, w) == <<Xor(v[1], w[1]), Xor(v[2], w[2])>>

\* w >>> k for 0 < k < 16
ShrU32(w, k) == <<w[1] \div Pow2(k),
                   (w[2] \div Pow2(k)) + (w[1] % Pow2(k)) * Pow2(16 - k)>>

\* ~w
NotU32(w) == <<Half - 1 - w[1], Half - 1 - w[2]>>

\* the signed 32-bit integer with the bits of w (the operand conversion of >> and |)
ToInt32(w) == IF w[1] >= Half \div 2 THEN (w[1] - Half) * Half + w[2]
              ELSE w[1] * Half + w[2]

\* part_005:73-80: the four bytes of the signed 32-bit integer num, high first
toBigEndian(num) == <<(num \div 16777216) % 256, (num \div 65536) % 256,
                      (num \div 256) % 256, num % 256>>

\* 0xEDB88320
CrcPolynomial == <<60856, 33568>>

\* part_005:54-58: eight shift-and-conditional-xor steps
RECURSIVE CrcTableEntry(_, _)
CrcTableEntry(c, k) ==
    IF k = 0 THEN c
    ELSE CrcTableEntry(IF c[2] % 2 = 1 THEN XorU32(CrcPolynomial, ShrU32(c, 1))
                       ELSE ShrU32(c, 1), k - 1)

CrcTable == [n \in 0..255 |-> CrcTableEntry(<<0, n>>, 8)]

\* part_005:60: crc = table[(crc ^ byte) & 0xFF] ^ (crc >>> 8)
CrcByte(crc, byte) ==
    XorU32(CrcTable[Xor(crc[2] % 256, byte)], ShrU32(crc, 8))

\* the loop of part_005:60 over bytes lo..hi of buf, in order.  The range is
\* halved and the first half finished before the second starts, so that the
\* evaluation stays shallow.
RECURSIVE CrcLoop(_, _, _, _)
CrcLoop(buf, lo, hi, crc) ==
    IF lo > hi THEN crc
    ELSE IF lo = hi THEN CrcByte(crc, buf[lo])
    ELSE LET mid  == (lo + hi) \div 2
             left == CrcLoop(buf, lo, mid, crc)
         IN  IF Len(left) = 2 THEN CrcLoop(buf, mid + 1, hi, left) ELSE left

\* part_005:53-62: starts from ~0 and returns ~crc >>> 0, as a 32-bit word
crc32(buf) == NotU32(CrcLoop(buf, 1, Len(buf), <<Half - 1, Half - 1>>))

AdlerModulus == 65521

\* mutant: b takes the value a had before the byte was added
AdlerByteSumFirst(ba, byte) ==
    <<(ba[1] + ba[2]) % AdlerModulus, (ba[2] + byte) % AdlerModulus>>

\* part_005:67-68: one byte; ba is the pair <<b, a>>
AdlerByte(ba, byte) ==
    LET a2 == (ba[2] + byte) % AdlerModulus
    IN  <<(ba[1] + a2) % AdlerModulus, a2>>

\* part_005:66-69 over bytes lo..hi of buf, in order (halved like CrcLoop)
RECURSIVE AdlerLoop(_, _, _, _)
AdlerLoop(buf, lo, hi, ba) ==
    IF lo > hi THEN ba
    ELSE IF lo = hi THEN AdlerByte(ba, buf[lo])
    ELSE LET mid  == (lo + hi) \div 2
             left == AdlerLoop(buf, lo, mid, ba)
         IN  IF Len(left) = 2 THEN AdlerLoop(buf, mid + 1, hi, left) ELSE left

\* part_005:64-71: a = 1, b = 0 at the start; (b << 16) | a is a signed
\* 32-bit integer
adler32(buf) == ToInt32(AdlerLoop(buf, 1, Len(buf), <<0, 1>>))

PngSignature == <<137, 80, 78, 71, 13, 10, 26, 10>>
IHDR == <<73, 72, 68, 82>>
IDAT == <<73, 68, 65, 84>>
IEND == <<73, 69, 78, 68>>

\* part_005:83-93: length, type and data of the IHDR chunk
PngHeader(width, height) ==
    toBigEndian(13) \o IHDR \o toBigEndian(width) \o toBigEndian(height) \o
    <<8, 0, 0, 0, 0>>

\* mutant: the filter byte written after the row instead of before it
ScanlinesFilterLast(width, height, pixelData) ==
    [n \in 1..(width * height + height) |->
       IF width <= 0 \/ height <= 0 THEN 0
       ELSE LET y == (n - 1) \div (width + 1)
                x == (n - 1) % (width + 1)
            IN  IF x = width THEN 0 ELSE pixelData[y * width + x + 1]]

\* part_005:97: new Uint8Array(width * height + height) raises for a
\* negative length
PngRaises(width, height) == width * height + height < 0

\* part_005:96-101: every row prefixed with the filter byte 0.  Defined for
\* width * height >= 0, the sizes generateFractal returns a grid for; with
\* a width or height that is not positive no pixel is copied and the buffer
\* stays zero.
Scanlines(width, height, pixelData) ==
    [n \in 1..(width * height + height) |->
       IF width <= 0 \/ height <= 0 THEN 0
       ELSE LET y == (n - 1) \div (width + 1)
                x == (n - 1) % (width + 1)
            IN  IF x = 0 THEN 0 ELSE pixelData[y * width + x]]

\* mutant: the length and its complement written as single bytes
BlockHeaderOneByte(len) ==
    <<1, len % 256, 0, (0 - len - 1) % 256, 255>>

\* part_005:105-111: stored-block header for a block of len bytes;
\* the elements of a Uint8Array keep the low 8 bits
BlockHeader(len) ==
    <<1, len % 256, (len \div 256) % 256,
      (0 - len - 1) % 256, (0 - (len \div 256) - 1) % 256>>

\* mutant: the Adler-32 trailer left out of the zlib stream
DeflateNoAdler(scanlines) ==
    <<120, 1>> \o BlockHeader(Len(scanlines)) \o scanlines

\* part_005:104-118
Deflate(scanlines) ==
    <<120, 1>> \o BlockHeader(Len(scanlines)) \o scanlines \o
    toBigEndian(adler32(scanlines))

\* mutant: the CRC taken over the length field as well
DataChunkCrcWithLength(deflate) ==
    toBigEndian(Len(deflate)) \o IDAT \o deflate \o
    toBigEndian(ToInt32(crc32(toBigEndian(Len(deflate)) \o IDAT \o deflate)))

\* part_005:120-125
DataChunk(deflate) ==
    toBigEndian(Len(deflate)) \o IDAT \o deflate \o
    toBigEndian(ToInt32(crc32(IDAT \o deflate)))

\* part_005:127-131
EndChunk == toBigEndian(0) \o IEND \o toBigEndian(ToInt32(crc32(IEND)))

\* part_005:82-94, 103-133: the file around the scanline buffer
PngFile(width, height, scanlines) ==
    LET header == PngHeader(width, height)
    IN  PngSignature \o header \o
        toBigEndian(ToInt32(crc32(SubSeq(header, 5, Len(header))))) \o
        DataChunk(Deflate(scanlines)) \o EndChunk

createMinimalPNG(width, height, pixelData) ==
    PngFile(width, height, Scanlines(width, height, pixelData))

\* ------------------------------------------------------------------------
\* handleFractalRequest: src/src/index.js:683-745
\* A request carries each query parameter as an optional value, numbers
\* already parsed by parseInt.
\* ------------------------------------------------------------------------
BmpMaxWidth  == 800
BmpMaxHeight == 600
PngMaxWidth  == 320
PngMaxHeight == 200
IterLimit    == 800
DefaultWidth  == 720
DefaultHeight == 432
DefaultIter   == 50

Min(a, b) == IF a < b THEN a ELSE b

\* Math.min: NaN when an argument is NaN
MathMin(a, b) == IF IsNaN(a) \/ IsNaN(b) THEN NaN ELSE Num(Min(a[1], b[1]))

\* index.js:693: bmpParam !== 'false'
UseBmp(bmpParam) == bmpParam # Some("false")

\* index.js:694: seedParam ? parseInt(seedParam) : Math.floor(Math.random() * 1000000)
SeedOf(seedParam, rnd) == IF seedParam # None THEN seedParam[1] ELSE rnd

\* mutant: the requested width passed on without Math.min
ClampWidthUnbounded(widthParam, useBmp) ==
    IF widthParam # None THEN widthParam[1] ELSE Num(DefaultWidth)

\* index.js:696-705.  A parameter that is absent or empty is None and takes
\* the default; a present one carries what parseInt made of it.
ClampWidth(widthParam, useBmp) ==
    MathMin(IF widthParam # None THEN widthParam[1] ELSE Num(DefaultWidth),
            Num(IF useBmp THEN BmpMaxWidth ELSE PngMaxWidth))

\* mutant: the height raised to at least 1
ClampHeightAtLeastOne(heightParam, useBmp) ==
    LET h == MathMin(IF heightParam # None THEN heightParam[1] ELSE Num(DefaultHeight),
                     Num(IF useBmp THEN BmpMaxHeight ELSE PngMaxHeight))
    IN  IF ~IsNaN(h) /\ h[1] < 1 THEN Num(1) ELSE h

ClampHeight(heightParam, useBmp) ==
    MathMin(IF heightParam # None THEN heightParam[1] ELSE Num(DefaultHeight),
            Num(IF useBmp THEN BmpMaxHeight ELSE PngMaxHeight))

\* index.js:708
ClampIter(iterParam) ==
    MathMin(IF iterParam # None THEN iterParam[1] ELSE Num(DefaultIter), Num(IterLimit))

\* v < 0.5 for the fraction v = num / 0xFFFFFFFF: 2 * num < 2^32 - 1
LessThanHalf(v) == v.num[1] < (v.den[1] + 1) \div 2

\* mutant: the random choice is between mandelbrot and burningship
ChooseTypeShip(v) == IF LessThanHalf(v) THEN "mandelbrot" ELSE "burningship"

\* index.js:720: random() < 0.5 ? 'mandelbrot' : 'julia'
ChooseType(v) == IF LessThanHalf(v) THEN "mandelbrot" ELSE "julia"

\* index.js:684-708: the query parameters and what the handler makes of them.
\* `rnd` is the value Math.random gives the seed when the request has none.
ParseFractalArgs(req, rnd) ==
    LET useBmp == UseBmp(req.bmpParam)
    IN  [ seed      |-> SeedOf(req.seedParam, rnd),
          width     |-> ClampWidth(req.widthParam, useBmp),
          height    |-> ClampHeight(req.heightParam, useBmp),
          maxIter   |-> ClampIter(req.iterParam),
          typeParam |-> req.typeParam,
          useBmp    |-> useBmp ]

\* index.js:726-744 with part_005: the encoder applied to numbers that may be
\* NaN.  createMinimalBMP with a NaN size allocates an empty buffer and its
\* first write raises; createMinimalPNG with a NaN size writes 0 for the NaN
\* field (NaN >> 24 is 0) and an empty scanline buffer.
EncodeImage(useBmp, width, height, pixelData) ==
    LET nan == IsNaN(width) \/ IsNaN(height)
        w   == ToIndex(width)
        h   == ToIndex(height)
    IN  IF useBmp
        THEN IF nan \/ BmpRaises(w, h)
             THEN [threw |-> TRUE, bytes |-> <<>>]
             ELSE [threw |-> FALSE, bytes |-> createMinimalBMP(w, h, pixelData)]
        ELSE IF nan
             THEN [threw |-> FALSE, bytes |-> PngFile(w, h, <<>>)]
             ELSE IF PngRaises(w, h)
                  THEN [threw |-> TRUE, bytes |-> <<>>]
                  ELSE [threw |-> FALSE, bytes |-> createMinimalPNG(w, h, pixelData)]

\* index.js:683-745.  `prior` is the generator cell left by the previous
\* closure.  outcome "exception": a RangeError left the handler (fetch has no
\* try/catch, index.js:590-680), so no Response was made.
handleFractalRequest(req, rnd, prior) ==
    LET args     == ParseFractalArgs(req, rnd)
        \* the handler's own closure draws only when typeParam is absent
        cell0    == InitialState(args.seed, prior)
        cell1    == IF req.typeParam # None THEN cell0 ELSE RandomState(cell0)
        fractalType == IF req.typeParam # None THEN req.typeParam[1]
                       ELSE ChooseType(RandomValue(cell1))
        gen      == generateFractal(args.width, args.height, args.maxIter,
                                    args.seed, fractalType, cell1)
        enc      == IF gen.threw THEN [threw |-> TRUE, bytes |-> <<>>]
                    ELSE EncodeImage(args.useBmp, args.width, args.height, gen.pixelData)
    IN  [ request     |-> req,
          args        |-> args,
          seedParam   |-> req.seedParam,
          typeDraw    |-> IF req.typeParam # None THEN None ELSE Some(cell1),
          fractalType |-> fractalType,
          params      |-> gen.params,
          orbit       |-> gen.orbit,
          iters       |-> gen.iters,
          pixelData   |-> gen.pixelData,
          outcome     |-> IF enc.threw THEN "exception" ELSE "image",
          body        |-> enc.bytes,
          contentType |-> IF enc.threw THEN "none"
                          ELSE IF args.useBmp THEN "image/bmp" ELSE "image/png",
          state       |-> gen.state ]

\* ------------------------------------------------------------------------
\* Spec: /fractal requests arrive one at a time and are handled to completion
\* ------------------------------------------------------------------------
\* first draw below 0.5 (12345), above 0.5 (67890), exactly 1 (653637408)
RequestSeeds == {U32(12345), U32(67890), <<9973, 46880>>}

Types == {None, Some("mandelbrot"), Some("julia"), Some("burningship")}

Requests ==
    [ seedParam   : {Some(s) : s \in RequestSeeds},
      typeParam   : Types,
      widthParam  : {Some(Num(n)) : n \in 1..MaxReqSize},
      heightParam : {Some(Num(n)) : n \in 1..MaxReqSize},
      bmpParam    : {None, Some("false")},
      iterParam   : {Some(Num(n)) : n \in 1..MaxReqIter} ]

\* the arguments whose first response is remembered
Watched(args) ==
    /\ args.seed = U32(67890)
    /\ args.width = Num(2) /\ args.height = Num(2) /\ args.maxIter = Num(3)
    /\ \/ args.typeParam = None /\ ~args.useBmp
       \/ args.typeParam = Some("julia") /\ args.useBmp

Init ==
    /\ pending = None
    /\ resp = None
    /\ first = None /\ db = None /\ now = None /\ env = None
    /\ state = U32(0)
    /\ seed = None /\ draws = None /\ value = None
    /\ input = None /\ output = None

\* the runtime delivers a request to the fetch handler
Receive(req) ==
    /\ pending = None
    /\ pending' = Some(req)
    /\ resp' = None
    /\ UNCHANGED <<state, first, seed, draws, value, input, output, db, now, env>>

\* the handler runs to completion (it never awaits)
HandleFractalRequest ==
    /\ pending # None
    /\ \E h \in {handleFractalRequest(pending[1], U32(0), state)} :
           /\ resp' = Some(h)
           /\ state' = h.state
           /\ first' = IF first = None
                       THEN IF Watched(h.args)
                            THEN Some([args |-> h.args, pixelData |-> h.pixelData,
                                       body |-> h.body, others |-> 0])
                            ELSE None
                       ELSE IF h.args # first[1].args
                            THEN Some([first[1] EXCEPT !.others = 1])
                            ELSE first
    /\ pending' = None
    /\ UNCHANGED <<seed, draws, value, input, output, db, now, env>>

Next ==
    \/ \E req \in Requests : Receive(req)
    \/ HandleFractalRequest

Spec == Init /\ [][Next]_vars

\* ------------------------------------------------------------------------
\* SpecMap: the grayscale mapping applied to the escape counts 0..maxIter of
\* one iteration cap, in increasing order
\* ------------------------------------------------------------------------
\* 225 = 15 * 15 is a cap at which 65025 * i / maxIter is a perfect square
\* for some count i below it (i = 169)
IterCaps == (1..MaxMapIter) \cup {15 * 15}

InitMap ==
    /\ input \in {[maxIter |-> m, i |-> 0, below |-> None] : m \in IterCaps}
    /\ output = None
    /\ seed = None /\ state = None /\ draws = None /\ value = None
    /\ pending = None /\ resp = None /\ first = None /\ db = None /\ now = None /\ env = None

\* fractal.js:83-88 for the count input.i
MapIntensity ==
    /\ output = None
    /\ output' = Some(Intensity(input.i, input.maxIter))
    /\ UNCHANGED <<input, seed, state, draws, value, pending, resp, first, db, now, env>>

\* the next count; `below` keeps the intensity of the count before it
NextCount ==
    /\ output # None
    /\ input.i < input.maxIter
    /\ input' = [input EXCEPT !.i = @ + 1, !.below = output]
    /\ output' = None
    /\ UNCHANGED <<seed, state, draws, value, pending, resp, first, db, now, env>>

NextMap == MapIntensity \/ NextCount

SpecMap == InitMap /\ [][NextMap]_vars

\* ------------------------------------------------------------------------
\* SpecBmp: createMinimalBMP applied to grids of every size up to
\* MaxBmpWidth x MaxBmpHeight
\* ------------------------------------------------------------------------
\* pixel p of the test grid with step a: (255 + a * p) mod 256
Pattern(a, n) == [p \in 1..n |-> (255 + a * p) % 256]

PatternSteps == {0, 1, 37, 255}

InitBmp ==
    /\ input \in {[width |-> w, height |-> h, pixelData |-> Pattern(a, w * h)] :
                    w \in 1..MaxBmpWidth, h \in 1..MaxBmpHeight, a \in PatternSteps}
    /\ output = None
    /\ seed = None /\ state = None /\ draws = None /\ value = None
    /\ pending = None /\ resp = None /\ first = None /\ db = None /\ now = None /\ env = None

EncodeBmp ==
    /\ output = None
    /\ output' = Some(createMinimalBMP(input.width, input.height, input.pixelData))
    /\ UNCHANGED <<input, seed, state, draws, value, pending, resp, first, db, now, env>>

NextBmp == EncodeBmp

SpecBmp == InitBmp /\ [][NextBmp]_vars

\* ------------------------------------------------------------------------
\* SpecPng: createMinimalPNG applied to grids of every size up to
\* MaxPngWidth x MaxPngHeight
\* ------------------------------------------------------------------------
InitPng ==
    /\ input \in {[width |-> w, height |-> h, pixelData |-> Pattern(a, w * h)] :
                    w \in 1..MaxPngWidth, h \in 1..MaxPngHeight, a \in PatternSteps}
    /\ output = None
    /\ seed = None /\ state = None /\ draws = None /\ value = None
    /\ pending = None /\ resp = None /\ first = None /\ db = None /\ now = None /\ env = None

EncodePng ==
    /\ output = None
    /\ output' = Some(createMinimalPNG(input.width, input.height, input.pixelData))
    /\ UNCHANGED <<input, seed, state, draws, value, pending, resp, first, db, now, env>>

NextPng == EncodePng

SpecPng == InitPng /\ [][NextPng]_vars

\* ------------------------------------------------------------------------
\* SpecArgs: the handler up to its call of generateFractal (index.js:684-708)
\* for widths, heights and iteration counts around every limit
\* ------------------------------------------------------------------------
ArgValues ==
    {-1, 0, 1, MaxArg} \cup
    {m + d : m \in {PngMaxHeight, PngMaxWidth, BmpMaxHeight, BmpMaxWidth, IterLimit},
             d \in {-1, 0, 1}}

\* absent, not an integer, or an integer
ArgParams == {None, Some(NaN)} \cup {Some(Num(n)) : n \in ArgValues}

InitArgs ==
    /\ input \in [ seedParam   : {Some(U32(12345))},
                    typeParam   : {None},
                    widthParam  : ArgParams,
                    heightParam : ArgParams,
                    bmpParam    : {None, Some("false")},
                    iterParam   : ArgParams ]
    /\ output = None
    /\ seed = None /\ state = None /\ draws = None /\ value = None
    /\ pending = None /\ resp = None /\ first = None /\ db = None /\ now = None /\ env = None

ParseArgs ==
    /\ output = None
    /\ output' = Some(ParseFractalArgs(input, U32(0)))
    /\ UNCHANGED <<input, seed, state, draws, value, pending, resp, first, db, now, env>>

NextArgs == ParseArgs

SpecArgs == InitArgs /\ [][NextArgs]_vars

\* ------------------------------------------------------------------------
\* SpecDims: the /fractal handler on requests whose width and height are
\* negative, zero, small or not an integer
\* ------------------------------------------------------------------------
DimParams == {Some(NaN)} \cup {Some(Num(n)) : n \in (0 - MaxDim)..MaxDim}

DimRequests ==
    [ seedParam   : {Some(U32(67890))},
      typeParam   : {None, Some("burningship")},
      widthParam  : DimParams,
      heightParam : DimParams,
      bmpParam    : {None, Some("false")},
      iterParam   : {Some(Num(2)), Some(Num(-1)), Some(NaN)} ]

InitDims ==
    /\ pending \in {Some(req) : req \in DimRequests}
    /\ resp = None
    /\ first = None /\ db = None /\ now = None /\ env = None
    /\ state = U32(0)
    /\ seed = None /\ draws = None /\ value = None
    /\ input = None /\ output = None

NextDims == HandleFractalRequest

SpecDims == InitDims /\ [][NextDims]_vars

\* ------------------------------------------------------------------------
\* SpecVariant: generateFractal called with variant strings of every kind
\* ------------------------------------------------------------------------
VariantStrings ==
    {"mandelbrot", "julia", "burningship", "Julia", "JULIA", "BurningShip",
     "Mandelbrot", "tricorn", ""}

InitVariant ==
    /\ input \in [ width : 1..MaxReqSize, height : 1..MaxReqSize,
                    maxIter : 1..MaxReqIter, seed : RequestSeeds,
                    fractalType : VariantStrings ]
    /\ output = None
    /\ seed = None /\ state = None /\ draws = None /\ value = None
    /\ pending = None /\ resp = None /\ first = None /\ db = None /\ now = None /\ env = None

Generate ==
    /\ output = None
    /\ output' = Some(generateFractal(Num(input.width), Num(input.height),
                                      Num(input.maxIter), input.seed,
                                      input.fractalType, input.seed))
    /\ UNCHANGED <<input, seed, state, draws, value, pending, resp, first, db, now, env>>

NextVariant == Generate

SpecVariant == InitVariant /\ [][NextVariant]_vars

\* ------------------------------------------------------------------------
\* SpecBlock: the stored-block header createMinimalPNG writes for every PNG
\* size the handler passes on, the requested sizes reaching MaxOver past the
\* maxima
\* ------------------------------------------------------------------------
\* part_005:97: scanlines.length
ScanlineLength(width, height) == width * height + height

InitBlock ==
    /\ input \in [ widthParam  : {Some(Num(n)) : n \in 1..(PngMaxWidth + MaxOver)},
                    heightParam : {Some(Num(n)) : n \in 1..(PngMaxHeight + MaxOver)} ]
    /\ output = None
    /\ seed = None /\ state = None /\ draws = None /\ value = None
    /\ pending = None /\ resp = None /\ first = None /\ db = None /\ now = None /\ env = None

\* index.js:696-705 and part_005:97-111 for a request with bmp=false
WriteBlockHeader ==
    /\ output = None
    /\ \E width \in {ClampWidth(input.widthParam, FALSE)[1]} :
       \E height \in {ClampHeight(input.heightParam, FALSE)[1]} :
          output' = Some([width |-> width, height |-> height,
                          blockHeader |-> BlockHeader(ScanlineLength(width, height))])
    /\ UNCHANGED <<input, seed, state, draws, value, pending, resp, first, db, now, env>>

NextBlock == WriteBlockHeader

SpecBlock == InitBlock /\ [][NextBlock]_vars

\* ========================================================================
\* Polls: the D1 poll store (src/unnamed/part_007), its handlers and the
\* router (src/src/index.js), API keys (src/src/middleware/validateApiKey.js,
\* src/scripts/generate-api-key.js)
\* ========================================================================

\* ------------------------------------------------------------------------
\* Bounds of the poll model
\* ------------------------------------------------------------------------
MaxClock == 62000    \* SpecPoll, SpecAuth: the clock stops at this many ms
MaxInFlight == 2      \* SpecRace: invocations in flight at a time
MaxSaves == 2         \* SpecRace: admin saves in a behaviour
MaxChecks == 3        \* SpecLimit: invocations of checkRateLimit in a behaviour
MaxLimitTicks == 2    \* SpecLimit: the clock advances at most this many times
MaxSpaClock == 6000   \* SpecSpa: the page is loaded at this time at the latest
MaxKeyDay == 2       \* SpecKey: keys are issued and checked on days 0..MaxKeyDay

\* ------------------------------------------------------------------------
\* Text.  A text is a sequence of atoms and an atom a sequence of strings:
\* Lit("stucal") is a run of characters without '_', Sep the character '_',
\* and the hex form of a digest is one atom naming the digest and the bytes
\* it was taken of.  Concat gives the bytes of a text.
\* ------------------------------------------------------------------------
Lit(s) == <<s>>
Sep == <<"_">>

RECURSIVE Concat(_)
Concat(text) ==
    IF text = <<>> THEN <<>> ELSE Head(text) \o Concat(Tail(text))

\* ------------------------------------------------------------------------
\* The poll store (part_007).  db.polls maps the ids of the rows of `polls`
\* to the row and its poll_options rows in id order; db.voters is the set of
\* rows of poll_voters.  Times are milliseconds; an ISO string is the
\* millisecond value it denotes, and an unparseable date string is NaN.
\* ------------------------------------------------------------------------
DefaultDurationSeconds == 30
MsPerSecond == 1000

EmptyDb == [polls |-> <<>>, voters |-> {}]

HasPoll(d, pollId) == pollId \in DOMAIN d.polls

\* the polls table with the row of pollId replaced or added
WithPoll(d, pollId, row) ==
    [d EXCEPT !.polls = [i \in (DOMAIN d.polls) \cup {pollId} |->
                            IF i = pollId THEN row ELSE d.polls[i]]]

WithoutPoll(d, pollId) ==
    [polls  |-> [i \in (DOMAIN d.polls) \ {pollId} |-> d.polls[i]],
     voters |-> {v \in d.voters : v[1] # pollId}]

\* name && name.trim().length > 0
IsBlank(name) == name \in {"", " "}

RECURSIVE OptionRows(_)
OptionRows(names) ==
    IF names = <<>> THEN <<>>
    ELSE IF IsBlank(Head(names)) THEN OptionRows(Tail(names))
    ELSE <<[name |-> Head(names), votes |-> 0]>> \o OptionRows(Tail(names))

\* durationSeconds of createPoll: a JSON number is the fraction <<n, d>>
DurationSeconds(param) ==
    IF param = None THEN DefaultDurationSeconds
    ELSE IF param[1][1] > 0 THEN param[1][1] \div param[1][2]
    ELSE DefaultDurationSeconds

\* poll.durationSeconds || 30
DurationOnReset(durationSeconds) ==
    IF durationSeconds = 0 THEN DefaultDurationSeconds ELSE durationSeconds

\* getPoll(pollId, db) for a poll that exists: part_007:109-125
getPoll(pollId, d) ==
    [id |-> pollId,
     durationSeconds |-> d.polls[pollId].durationSeconds,
     open |-> d.polls[pollId].open,
     close |-> d.polls[pollId].close,
     options |-> d.polls[pollId].options]

\* how a call of the store ends: an Error thrown, or the poll returned
Thrown(d, message) == [threw |-> TRUE, error |-> message, db |-> d, poll |-> None]
Returned(d, pollId) ==
    [threw |-> FALSE, error |-> "", db |-> d, poll |-> Some(getPoll(pollId, d))]

\* the close time of a poll created at t without one
DefaultClose(t, durationSeconds) == t + durationSeconds * MsPerSecond

\* createPoll(params, db) at time t, uuid being what uuidv4() returns
createPoll(params, d, t, uuid) ==
    IF params.options = <<>> THEN Thrown(d, "Poll options are required")
    ELSE
    LET durationSeconds == DurationSeconds(params.durationSeconds)
        id == IF params.id = None THEN uuid ELSE params.id[1]
        badDate == params.open = Some(NaN) \/ params.close = Some(NaN)
        open == IF params.open = None THEN t ELSE params.open[1][1]
        close == IF params.close = None THEN DefaultClose(t, durationSeconds)
                 ELSE params.close[1][1]
        rows == OptionRows(params.options)
        row == [open |-> open, close |-> close,
                durationSeconds |-> durationSeconds, options |-> rows]
    IN  IF badDate THEN Thrown(d, "Invalid time value")
        ELSE IF HasPoll(d, id) THEN Thrown(d, "UNIQUE constraint failed: polls.id")
        ELSE IF rows = <<>>
             THEN Thrown(WithPoll(d, id, row), "Poll options are required")
        ELSE Returned(WithPoll(d, id, row), id)

\* mutant of MarkVoter: no marker is written
MarkVoterNever(voters, pollId, voterHash) == voters

\* the poll_voters rows after the INSERT of vote
MarkVoter(voters, pollId, voterHash) ==
    IF voterHash = None THEN voters ELSE voters \cup {<<pollId, voterHash[1]>>}

\* mutant: the closing time is not tested
voteAfterClose(pollId, optionIndex, d, voterHash, t) ==
    IF ~HasPoll(d, pollId) THEN Thrown(d, "Poll not found")
    ELSE
    LET poll == d.polls[pollId] IN
    IF poll.open > t THEN Thrown(d, "Poll has not opened yet")
    ELSE IF optionIndex < 0 \/ optionIndex >= Len(poll.options)
         THEN Thrown(d, "Invalid option index")
    ELSE IF voterHash # None /\ <<pollId, voterHash[1]>> \in d.voters
         THEN Thrown(d, "You have already voted on this poll")
    ELSE LET counted == [poll EXCEPT !.options[optionIndex + 1].votes = @ + 1]
         IN  Returned([polls  |-> WithPoll(d, pollId, counted).polls,
                       voters |-> MarkVoter(d.voters, pollId, voterHash)], pollId)

\* vote(pollId, optionIndex, db, voterHash) at time t
vote(pollId, optionIndex, d, voterHash, t) ==
    IF ~HasPoll(d, pollId) THEN Thrown(d, "Poll not found")
    ELSE
    LET poll == d.polls[pollId] IN
    IF poll.open > t THEN Thrown(d, "Poll has not opened yet")
    ELSE IF poll.close < t THEN Thrown(d, "Poll has closed")
    ELSE IF optionIndex < 0 \/ optionIndex >= Len(poll.options)
         THEN Thrown(d, "Invalid option index")
    ELSE IF voterHash # None /\ <<pollId, voterHash[1]>> \in d.voters
         THEN Thrown(d, "You have already voted on this poll")
    ELSE LET counted == [poll EXCEPT !.options[optionIndex + 1].votes = @ + 1]
         IN  Returned([polls  |-> WithPoll(d, pollId, counted).polls,
                       voters |-> MarkVoter(d.voters, pollId, voterHash)], pollId)

\* mutant of ResetVoters: the markers are kept
ResetVotersKept(voters, pollId) == voters

\* DELETE FROM poll_voters WHERE poll_id = ?
ResetVoters(voters, pollId) == {v \in voters : v[1] # pollId}

\* resetPoll(pollId, db) at time t
resetPoll(pollId, d, t) ==
    IF ~HasPoll(d, pollId) THEN Thrown(d, "Poll not found")
    ELSE
    LET poll == d.polls[pollId]
        row == [poll EXCEPT
                  !.open = t,
                  !.close = t + DurationOnReset(poll.durationSeconds) * MsPerSecond,
                  !.options = [i \in 1..Len(poll.options) |->
                                 [poll.options[i] EXCEPT !.votes = 0]]]
    IN  Returned([polls  |-> WithPoll(d, pollId, row).polls,
                  voters |-> ResetVoters(d.voters, pollId)], pollId)

\* deletePoll(pollId, db)
deletePoll(pollId, d) == WithoutPoll(d, pollId)

\* ------------------------------------------------------------------------
\* API keys: src/scripts/generate-api-key.js and
\* src/src/middleware/validateApiKey.js
\* ------------------------------------------------------------------------
HexDigits == <<"0", "1", "2", "3", "4", "5", "6", "7",
               "8", "9", "a", "b", "c", "d", "e", "f">>

\* Number.prototype.toString(16) of a non-negative integer
RECURSIVE Hex(_)
Hex(n) ==
    IF n < 16 THEN <<Lit(HexDigits[n + 1])>>
    ELSE Hex(n \div 16) \o <<Lit(HexDigits[(n % 16) + 1])>>

\* the first eight hex characters of HMAC-SHA-256 of `message` under
\* `keyData`: one atom, equal for equal bytes only
HmacHex8(keyData, message) == <<"hmac-sha256/8">> \o keyData \o <<"/">> \o message

\* the first 32 hex characters of SHA-256 of `data`
ShaHex32(data) == <<"sha256/32">> \o data

\* String.prototype.slice(0, 3)
Slice3(text) == SubSeq(text, 1, IF Len(text) < 3 THEN Len(text) ELSE 3)

KeyPrefix == <<Lit("stucal")>>

\* generate-api-key.js:23-25
KeyContent(timestamp, expiry, resource) ==
    IF resource # <<>>
    THEN KeyPrefix \o <<Sep>> \o timestamp \o <<Sep>> \o expiry \o <<Sep>> \o resource
    ELSE KeyPrefix \o <<Sep>> \o timestamp \o <<Sep>> \o expiry

\* generateApiKey(expiry, resource) run at time t with MASTER_KEY in the
\* environment; None when the script exits for want of MASTER_KEY
generateApiKey(expiry, resource, masterKey, t) ==
    IF masterKey = None THEN None
    ELSE LET keyContent == KeyContent(Hex(t), expiry, resource)
             signatureHex == HmacHex8(Concat(Slice3(masterKey[1])), Concat(keyContent))
         IN  Some(keyContent \o <<Sep, signatureHex>>)

\* the position of the first '_' of a text, or 0
RECURSIVE FirstSep(_, _)
FirstSep(text, i) ==
    IF i > Len(text) THEN 0
    ELSE IF text[i] = Sep THEN i
    ELSE FirstSep(text, i + 1)

\* String.prototype.split('_')
RECURSIVE Split(_)
Split(text) ==
    LET i == FirstSep(text, 1)
    IN  IF i = 0 THEN <<text>>
        ELSE <<SubSeq(text, 1, i - 1)>> \o Split(SubSeq(text, i + 1, Len(text)))

\* The dates the model knows, day 0 first, and the milliseconds of a day
DateTexts == <<"2026-11-06", "2026-11-07", "2026-11-08", "2026-11-09">>
MsPerDay == 24 * 60 * 60 * 1000

\* DateTime.fromFormat(expiry, 'yyyy-MM-dd'): the start of the day in ms, or
\* None for a text that is not a date
FromFormat(expiry) ==
    IF Len(expiry) = 1 /\ \E i \in 1..Len(DateTexts) : expiry[1] = Lit(DateTexts[i])
    THEN Some(MsPerDay * ((CHOOSE i \in 1..Len(DateTexts) : expiry[1] = Lit(DateTexts[i])) - 1))
    ELSE None

IsDevelopment(e) == e.ENVIRONMENT = "development" \/ e.NODE_ENV = "development"

\* validateApiKey.js:31-42: the X-API-Key header, else the `key` parameter;
\* an empty value counts as absent
PresentedKey(request) ==
    IF request.header # None /\ request.header[1] # <<>> THEN request.header
    ELSE IF request.query # None /\ request.query[1] # <<>> THEN request.query
    ELSE None

Invalid(message) == [valid |-> FALSE, error |-> message]

\* validateApiKey.js:46
PartCount(parts) == Len(parts) = 4

\* validateApiKey.js:44-111 for the key text apiKey at time t
CheckKey(apiKey, masterKey, t) ==
    LET parts == Split(apiKey) IN
    IF ~PartCount(parts) THEN Invalid("Invalid API key format")
    ELSE
    LET prefix == parts[1]
        random == parts[2]
        expiry == parts[3]
        providedSignature == parts[4]
        expiryDate == FromFormat(expiry)
        keyContent == prefix \o <<Sep>> \o random \o <<Sep>> \o expiry
        expectedSignature ==
            <<HmacHex8(Concat(Slice3(masterKey)), Concat(keyContent))>>
    IN  IF prefix # KeyPrefix THEN Invalid("Invalid API key prefix")
        ELSE IF expiryDate = None
             THEN Invalid("Invalid expiry date format in API key")
        ELSE IF expiryDate[1] < t THEN Invalid("API key has expired")
        ELSE IF expectedSignature # providedSignature
             THEN Invalid("Invalid API key signature")
        ELSE [valid |-> TRUE, error |-> ""]

\* validateApiKey(request, env) at time t
validateApiKey(request, e, t) ==
    IF IsDevelopment(e) THEN [valid |-> TRUE, error |-> ""]
    ELSE IF e.MASTER_KEY = None
         THEN Invalid("Server configuration error: Authentication is not properly configured")
    ELSE IF PresentedKey(request) = None
         THEN Invalid("No API key provided in header or URL parameters")
    ELSE CheckKey(PresentedKey(request)[1], e.MASTER_KEY[1], t)

\* mutant of AuthStatus: every failure is a 403
AuthStatusForbidden(error) == 403

\* validateApiKey.js:132: error.includes('No API key provided') ? 401 : 403
AuthStatus(error) ==
    IF error = "No API key provided in header or URL parameters" THEN 401 ELSE 403

\* ------------------------------------------------------------------------
\* The poll handlers and the router: src/src/index.js:523-543, 590-680,
\* 856-1087.  A request is [path, header, query, ip, body]; the body is the
\* parsed JSON with None for a field that is missing.  A response is
\* [status, error, db, ran, poll]: db is the store the handler leaves behind and
\* ran tells whether the route's handler was entered.
\* ------------------------------------------------------------------------
LocalSecret == <<"local-secret">>

\* index.js:523-531 with no user-agent and no accept-language header
getClientFingerprint(request) ==
    <<IF request.ip = None THEN "unknown" ELSE request.ip[1], "|", "unknown", "|", "">>

\* index.js:533-543
createVoterHash(pollId, request, e) ==
    LET secret == IF e.MASTER_KEY = None THEN LocalSecret ELSE Concat(e.MASTER_KEY[1])
    IN  ShaHex32(secret \o <<":", pollId, ":">> \o getClientFingerprint(request))

Response(status, error, d, poll) ==
    [status |-> status, error |-> error, db |-> d, ran |-> TRUE, poll |-> poll]

\* index.js:919-924
VoteErrorStatus(error) ==
    IF error = "You have already voted on this poll" THEN 409
    ELSE IF error = "Poll not found" THEN 404
    ELSE 400

\* index.js:902-931
handleVoteRequest(request, e, d, t) ==
    IF request.body.pollId = None \/ request.body.optionIndex = None
    THEN Response(400, "pollId and optionIndex are required", d, None)
    ELSE LET pollId == request.body.pollId[1]
             voterHash == createVoterHash(pollId, request, e)
             r == vote(pollId, request.body.optionIndex[1], d, Some(voterHash), t)
         IN  IF r.threw THEN Response(VoteErrorStatus(r.error), r.error, r.db, None)
             ELSE Response(200, "", r.db, r.poll)

\* index.js:856-874
handleCreatePollRequest(request, d, t, uuid, resource) ==
    LET body == request.body
        params == [id |-> IF resource # None THEN resource ELSE body.id,
                   options |-> body.options,
                   durationSeconds |-> body.durationSeconds,
                   open |-> body.open, close |-> body.close]
        r == createPoll(params, d, t, uuid)
    IN  IF r.threw THEN Response(400, r.error, r.db, None) ELSE Response(200, "", r.db, r.poll)

\* index.js:954-982
handleResetPollRequest(request, d, t, resource) ==
    IF request.body.pollId = None THEN Response(400, "pollId is required", d, None)
    ELSE IF resource # None /\ resource # request.body.pollId
         THEN Response(403, "Not allowed for this pollId", d, None)
    ELSE LET r == resetPoll(request.body.pollId[1], d, t)
         IN  IF r.threw THEN Response(400, r.error, r.db, None) ELSE Response(200, "", r.db, r.poll)

\* index.js:994-1022
handleAdminDeletePoll(request, d, resource) ==
    IF request.body.pollId = None THEN Response(400, "pollId is required", d, None)
    ELSE IF resource # None /\ resource # request.body.pollId
         THEN Response(403, "Not allowed for this pollId", d, None)
    ELSE Response(200, "", deletePoll(request.body.pollId[1], d), None)

RECURSIVE Sanitized(_)
Sanitized(names) ==
    IF names = <<>> THEN <<>>
    ELSE IF IsBlank(Head(names)) THEN Sanitized(Tail(names))
    ELSE <<Head(names)>> \o Sanitized(Tail(names))

\* Number(durationSeconds) || 30 as a fraction
DurationOrDefault(param) ==
    IF param = None \/ param[1][1] = 0 THEN <<DefaultDurationSeconds, 1>> ELSE param[1]

\* index.js:1024-1087.  The poll is deleted before the dates are formatted,
\* so an unparseable date leaves the poll deleted.
handleAdminSavePoll(request, d, t, uuid, resource) ==
    LET body == request.body
        sanitizedOptions == Sanitized(body.options)
        duration == DurationOrDefault(body.durationSeconds)
        durationMs == (duration[1] * MsPerSecond) \div duration[2]
        targetId == IF body.id # None THEN body.id ELSE resource
        after == IF targetId # None /\ body.id # None THEN deletePoll(body.id[1], d)
                 ELSE d
        params == [id |-> targetId,
                   options |-> sanitizedOptions,
                   durationSeconds |-> Some(duration),
                   open |-> IF body.open = None THEN Some(Num(t)) ELSE body.open,
                   close |-> IF body.close = None THEN Some(Num(t + durationMs))
                             ELSE body.close]
        r == createPoll(params, after, t, uuid)
    IN  IF body.options = <<>> THEN Response(400, "options are required", d, None)
        ELSE IF sanitizedOptions = <<>>
             THEN Response(400, "options must include at least one name", d, None)
        ELSE IF resource # None /\ body.id # None /\ resource # body.id
             THEN Response(403, "Not allowed for this pollId", d, None)
        ELSE IF r.threw THEN Response(400, r.error, r.db, None)
        ELSE Response(200, "", r.db, r.poll)

\* index.js:627-671: the routes behind withApiKeyValidation
ProtectedPaths ==
    {"/poll/new", "/poll/reset", "/poll/admin", "/poll/admin/delete",
     "/poll/admin/save", "/poll/admin/spa", "/poll/all", "/protected"}

\* index.js:627-671: the handler of a protected route; validateApiKey.js:145
\* calls it with (request, env, ctx), so `resource` is undefined
ProtectedHandler(request, d, t, uuid, resource) ==
    IF request.path = "/poll/new"
    THEN handleCreatePollRequest(request, d, t, uuid, resource)
    ELSE IF request.path = "/poll/reset"
    THEN handleResetPollRequest(request, d, t, resource)
    ELSE IF request.path = "/poll/admin/delete"
    THEN handleAdminDeletePoll(request, d, resource)
    ELSE IF request.path = "/poll/admin/save"
    THEN handleAdminSavePoll(request, d, t, uuid, resource)
    ELSE Response(200, "", d, None)

\* validateApiKey.js:127-146
withApiKeyValidation(request, e, d, t, uuid) ==
    LET v == validateApiKey(request, e, t)
    IN  IF ~v.valid
        THEN [status |-> AuthStatus(v.error), error |-> v.error, db |-> d, ran |-> FALSE,
              poll |-> None]
        ELSE ProtectedHandler(request, d, t, uuid, None)

\* index.js:590-680
fetch(request, e, d, t, uuid) ==
    IF request.path = "/poll/vote" THEN handleVoteRequest(request, e, d, t)
    ELSE IF request.path \in ProtectedPaths
    THEN withApiKeyValidation(request, e, d, t, uuid)
    ELSE IF request.path = "/status"
    THEN [status |-> 200, error |-> "", db |-> d, ran |-> FALSE, poll |-> None]
    ELSE [status |-> 404, error |-> "Not Found", db |-> d, ran |-> FALSE,
              poll |-> None]

\* ------------------------------------------------------------------------
\* SpecPoll: the worker in development mode; polls are created, voted on,
\* reset and deleted while the clock advances
\* ------------------------------------------------------------------------
Uuids == {"u1"}

EmptyBody ==
    [pollId |-> None, optionIndex |-> None, id |-> None, options |-> <<>>,
     durationSeconds |-> None, open |-> None, close |-> None]

Req(path, ip, body) ==
    [path |-> path, header |-> None, query |-> None, ip |-> ip, body |-> body]

\* one second more than the default duration of a poll
ClockStep == (DefaultDurationSeconds + 1) * MsPerSecond

Voters == {Some("10.0.0.1"), Some("10.0.0.2")}

CreateBodies ==
    { [EmptyBody EXCEPT !.id = Some("p1"), !.options = <<"A", "B">>],
      [EmptyBody EXCEPT !.options = <<"A">>, !.durationSeconds = Some(<<1, 2>>)],
      [EmptyBody EXCEPT !.id = Some("p1"), !.options = <<"A", "B">>,
                        !.durationSeconds = Some(<<60, 1>>),
                        !.open = Some(Num(ClockStep)),
                        !.close = Some(Num(ClockStep + 1))],
      [EmptyBody EXCEPT !.id = Some("p1")],
      [EmptyBody EXCEPT !.id = Some("p1"), !.options = <<"A">>,
                        !.close = Some(NaN)] }

PollRequests ==
    {Req("/poll/new", None, b) : b \in CreateBodies}
    \cup {Req("/poll/vote", ip, [EmptyBody EXCEPT !.pollId = Some(p),
                                                  !.optionIndex = Some(i)]) :
             ip \in Voters, p \in {"p1", "u1"}, i \in 0..2}
    \cup {Req(path, None, [EmptyBody EXCEPT !.pollId = Some(p)]) :
             path \in {"/poll/reset", "/poll/admin/delete"}, p \in {"p1", "u1"}}

NeedsUuid(req) ==
    req.path \in {"/poll/new", "/poll/admin/save"} /\ req.body.id = None

\* what uuidv4() may return: an id no poll has
FreshUuids(d) ==
    IF Uuids \ DOMAIN d.polls = {} THEN Uuids ELSE Uuids \ DOMAIN d.polls

DevelopmentEnv ==
    [ENVIRONMENT |-> "development", NODE_ENV |-> "development", MASTER_KEY |-> None]

InitPoll ==
    /\ db = EmptyDb
    /\ now = 0
    /\ env = DevelopmentEnv
    /\ pending = None /\ resp = None
    /\ first = None /\ state = None
    /\ seed = None /\ draws = None /\ value = None
    /\ input = None /\ output = None

\* a request reaches the worker; a poll without id is created only while
\* the model has an unused uuid
Arrive(req) ==
    /\ NeedsUuid(req) => Uuids \ DOMAIN db.polls # {}
    /\ Receive(req)

\* fetch(request, env, ctx) runs to its response
Fetch ==
    /\ pending # None
    /\ \E uuid \in FreshUuids(db) :
         \E r \in {fetch(pending[1], env, db, now, uuid)} :
           /\ resp' = Some([request |-> pending[1], at |-> now,
                            status |-> r.status, error |-> r.error,
                            ran |-> r.ran, poll |-> r.poll])
           /\ db' = r.db
    /\ pending' = None
    /\ UNCHANGED <<now, env, state, first, seed, draws, value, input, output>>

Tick ==
    /\ now + ClockStep <= MaxClock
    /\ now' = now + ClockStep
    /\ UNCHANGED <<db, env, pending, resp, state, first, seed, draws, value, input, output>>

NextPoll ==
    \/ \E req \in PollRequests : Arrive(req)
    \/ Fetch
    \/ Tick

SpecPoll == InitPoll /\ [][NextPoll]_vars

\* ------------------------------------------------------------------------
\* SpecRace: vote, reset, delete and admin-save invocations whose awaits
\* interleave. Every db.batch and every single statement is one atomic step;
\* an invocation keeps what it read in its slot of `input`. `state` holds the
\* AUTOINCREMENT position of poll_options: gen[p] numbers the option rows
\* poll p got last. One admin request (save or delete) runs at a time; votes
\* and resets run at any time, and the clock advances as in SpecPoll.
\* ------------------------------------------------------------------------
RacePoll == "p1"

RaceVotes ==
    {Req("/poll/vote", ip, [EmptyBody EXCEPT !.pollId = Some(RacePoll),
                                             !.optionIndex = Some(i)]) :
        ip \in Voters, i \in 0..1}

RaceSave ==
    Req("/poll/admin/save", None,
        [EmptyBody EXCEPT !.id = Some(RacePoll), !.options = <<"A", "B">>])

Slots == 1..MaxInFlight

SaveInFlight == \E s \in Slots : input[s] # None /\ input[s][1].kind = "save"

InitRace ==
    /\ db = EmptyDb
    /\ now = 0
    /\ env = DevelopmentEnv
    /\ input = [s \in Slots |-> None]
    /\ state = [created |-> 0, gen |-> [p \in {RacePoll} |-> 0]]
    /\ pending = None /\ resp = None /\ first = None
    /\ seed = None /\ draws = None /\ value = None /\ output = None

\* part_007:71-86: getPoll and the tests of vote, up to the batch; the
\* invocation remembers the id of the option row it read
VoteRead(s, req) ==
    /\ input[s] = None
    /\ LET p == req.body.pollId[1]
           i == req.body.optionIndex[1]
           ok == /\ HasPoll(db, p)
                 /\ db.polls[p].open <= now /\ now <= db.polls[p].close
                 /\ 0 <= i /\ i < Len(db.polls[p].options)
       IN  input' = [input EXCEPT ![s] =
                        IF ok THEN Some([kind |-> "vote", request |-> req,
                                         optionId |-> <<state.gen[p], i>>])
                        ELSE None]
    /\ UNCHANGED <<db, state, now, env, pending, resp, first, seed, draws, value, output>>

\* part_007:88-98: INSERT INTO poll_voters and UPDATE poll_options ... WHERE
\* id = ? AND poll_id = ? as one batch; the batch fails as a whole on the
\* UNIQUE constraint, and the UPDATE changes no row when the option row read
\* is gone
VoteWrite(s) ==
    /\ input[s] # None /\ input[s][1].kind = "vote"
    /\ LET req == input[s][1].request
           p == req.body.pollId[1]
           i == input[s][1].optionId[2]
           voterHash == createVoterHash(p, req, env)
           rowExists == /\ HasPoll(db, p)
                        /\ db.polls[p].options # <<>>
                        /\ state.gen[p] = input[s][1].optionId[1]
       IN  db' = IF <<p, voterHash>> \in db.voters THEN db
                 ELSE [polls  |-> IF rowExists
                                  THEN [db.polls EXCEPT ![p].options[i + 1].votes = @ + 1]
                                  ELSE db.polls,
                       voters |-> MarkVoter(db.voters, p, Some(voterHash))]
    /\ input' = [input EXCEPT ![s] = None]
    /\ UNCHANGED <<state, now, env, pending, resp, first, seed, draws, value, output>>

\* part_007:157-161: getPoll of resetPoll
ResetRead(s) ==
    /\ input[s] = None
    /\ input' = [input EXCEPT ![s] =
                    IF HasPoll(db, RacePoll)
                    THEN Some([kind |-> "reset", pollId |-> RacePoll,
                               durationSeconds |-> db.polls[RacePoll].durationSeconds])
                    ELSE None]
    /\ UNCHANGED <<db, state, now, env, pending, resp, first, seed, draws, value, output>>

\* part_007:163-167: the batch of resetPoll
ResetWrite(s) ==
    /\ input[s] # None /\ input[s][1].kind = "reset"
    /\ LET p == input[s][1].pollId
           close == now + DurationOnReset(input[s][1].durationSeconds) * MsPerSecond
       IN  db' = [polls  |-> IF HasPoll(db, p)
                             THEN [db.polls EXCEPT
                                     ![p].open = now, ![p].close = close,
                                     ![p].options = [k \in DOMAIN @ |->
                                                       [@[k] EXCEPT !.votes = 0]]]
                             ELSE db.polls,
                  voters |-> ResetVoters(db.voters, p)]
    /\ input' = [input EXCEPT ![s] = None]
    /\ UNCHANGED <<state, now, env, pending, resp, first, seed, draws, value, output>>

\* index.js:984-1022 and part_007:172-179: /poll/admin/delete
DeleteStep ==
    /\ ~SaveInFlight
    /\ HasPoll(db, RacePoll)
    /\ db' = deletePoll(RacePoll, db)
    /\ UNCHANGED <<input, state, now, env, pending, resp, first, seed, draws, value, output>>

\* index.js:1024-1064: /poll/admin/save up to the end of deletePoll
SaveDelete(s) ==
    /\ input[s] = None /\ ~SaveInFlight
    /\ state.created < MaxSaves
    /\ db' = deletePoll(RaceSave.body.id[1], db)
    /\ input' = [input EXCEPT ![s] = Some([kind |-> "save", pc |-> "polls"])]
    /\ UNCHANGED <<state, now, env, pending, resp, first, seed, draws, value, output>>

\* part_007:51-54: INSERT INTO polls of createPoll
SaveInsertPoll(s) ==
    /\ input[s] # None /\ input[s][1].kind = "save" /\ input[s][1].pc = "polls"
    /\ db' = WithPoll(db, RaceSave.body.id[1],
                      [open |-> now,
                       close |-> DefaultClose(now, DefaultDurationSeconds),
                       durationSeconds |-> DefaultDurationSeconds,
                       options |-> <<>>])
    /\ input' = [input EXCEPT ![s] = Some([kind |-> "save", pc |-> "options"])]
    /\ UNCHANGED <<state, now, env, pending, resp, first, seed, draws, value, output>>

\* part_007:56-65: the batch of INSERT INTO poll_options of createPoll
SaveInsertOptions(s) ==
    /\ input[s] # None /\ input[s][1].kind = "save" /\ input[s][1].pc = "options"
    /\ db' = [db EXCEPT !.polls[RaceSave.body.id[1]].options =
                            OptionRows(RaceSave.body.options)]
    /\ state' = [created |-> state.created + 1,
                 gen |-> [state.gen EXCEPT ![RaceSave.body.id[1]] = state.created + 1]]
    /\ input' = [input EXCEPT ![s] = None]
    /\ UNCHANGED <<now, env, pending, resp, first, seed, draws, value, output>>

NextRace ==
    \/ \E s \in Slots : \E req \in RaceVotes : VoteRead(s, req)
    \/ \E s \in Slots : VoteWrite(s)
    \/ \E s \in Slots : ResetRead(s)
    \/ \E s \in Slots : ResetWrite(s)
    \/ DeleteStep
    \/ \E s \in Slots : SaveDelete(s)
    \/ \E s \in Slots : SaveInsertPoll(s)
    \/ \E s \in Slots : SaveInsertOptions(s)
    \/ Tick

SpecRace == InitRace /\ [][NextRace]_vars

\* ------------------------------------------------------------------------
\* checkRateLimit: src/unnamed/part_006:16-59. The KV namespace RATE_LIMIT is
\* a function from keys to [count, timestamp, expires]; an entry is gone once
\* its expirationTtl has passed.
\* ------------------------------------------------------------------------
DefaultRateLimit == 200

HourInMillis == 60 * 60 * 1000

DecimalDigits == <<"0", "1", "2", "3", "4", "5", "6", "7", "8", "9">>

IsDecimalDigit(c) == \E k \in 1..10 : DecimalDigits[k] = c

DecimalDigitValue(c) == (CHOOSE k \in 1..10 : DecimalDigits[k] = c) - 1

\* the value of the longest prefix of decimal digits of text, after acc
RECURSIVE ParseDigits(_, _)
ParseDigits(text, acc) ==
    IF text = <<>> \/ ~IsDecimalDigit(Head(text)) THEN acc
    ELSE ParseDigits(Tail(text), 10 * acc + DecimalDigitValue(Head(text)))

\* parseInt of a text without sign or leading blanks
ParseInt(text) ==
    IF text = <<>> \/ ~IsDecimalDigit(Head(text)) THEN NaN
    ELSE Num(ParseDigits(text, 0))

\* part_006:22
RateLimitPerIP(e) ==
    IF e.RATE_LIMIT_PER_IP = None \/ e.RATE_LIMIT_PER_IP = Some(<<>>)
    THEN Num(DefaultRateLimit)
    ELSE ParseInt(e.RATE_LIMIT_PER_IP[1])

\* part_006:24-32: the key of an address, one key for each address
RateLimitKey(ip) == <<"rate_limit:", "sha256", ip>>

\* env.RATE_LIMIT.get(key, { type: 'json' }) at time t
KvGet(kv, key, t) ==
    IF key \in DOMAIN kv /\ t < kv[key].expires
    THEN Some([count |-> kv[key].count, timestamp |-> kv[key].timestamp])
    ELSE None

\* env.RATE_LIMIT.put(key, JSON.stringify(data), { expirationTtl }) at time t
KvPut(kv, key, data, ttlMillis, t) ==
    [k \in (DOMAIN kv) \cup {key} |->
        IF k = key THEN [count |-> data.count, timestamp |-> data.timestamp,
                         expires |-> t + ttlMillis]
        ELSE kv[k]]

\* part_006:35-38: what the invocation works on after its read at currentTime
RateData(kv, ip, currentTime) ==
    LET data == KvGet(kv, RateLimitKey(ip), currentTime)
    IN  IF data = None THEN [count |-> 0, timestamp |-> currentTime] ELSE data[1]

\* part_006:41-45
WindowOf(data, currentTime) ==
    IF currentTime - data.timestamp > HourInMillis
    THEN [count |-> 0, timestamp |-> currentTime]
    ELSE data

\* part_006:48: data.count >= rateLimitPerIP, false for NaN
LimitReached(data, limit) == ~IsNaN(limit) /\ data.count >= limit[1]

\* ------------------------------------------------------------------------
\* SpecLimit: the worker answers /status requests from two addresses while
\* checkRateLimit is invoked for them, its invocations interleaving between
\* the KV read and the KV write. `state` is the KV namespace, `input` the
\* invocations in flight, `value` counts the invocations that returned true,
\* by address and window timestamp, `first` the invocations started.
\* ------------------------------------------------------------------------
LimitIps == {"10.0.0.1", "10.0.0.2"}

LimitEnvs ==
    {[RATE_LIMIT_PER_IP |-> v] : v \in {None, Some(<<"2">>)}}

LimitRequests == {Req("/status", Some(ip), EmptyBody) : ip \in LimitIps}

LimitStep == (HourInMillis \div 2) + 1

InitLimit ==
    /\ env \in LimitEnvs
    /\ now = 0
    /\ db = EmptyDb
    /\ state = <<>>
    /\ input = [s \in Slots |-> None]
    /\ value = <<>>
    /\ first = 0
    /\ pending = None /\ resp = None
    /\ seed = None /\ draws = None /\ output = None

\* part_006:17-38: up to the end of the KV read
CheckRead(s, ip) ==
    /\ input[s] = None
    /\ first < MaxChecks
    /\ first' = first + 1
    /\ input' = [input EXCEPT ![s] =
                    Some([ip |-> ip, currentTime |-> now,
                          data |-> RateData(state, ip, now)])]
    /\ UNCHANGED <<state, value, db, now, env, pending, resp, seed, draws, output>>

\* part_006:41-58: from the KV read to the return
CheckWrite(s) ==
    /\ input[s] # None
    /\ LET ip == input[s][1].ip
           data == WindowOf(input[s][1].data, input[s][1].currentTime)
           counted == [data EXCEPT !.count = @ + 1]
           window == <<ip, data.timestamp>>
       IN  IF LimitReached(data, RateLimitPerIP(env))
           THEN UNCHANGED <<state, value>>
           ELSE /\ state' = KvPut(state, RateLimitKey(ip), counted, HourInMillis, now)
                /\ value' = [w \in (DOMAIN value) \cup {window} |->
                                IF w # window THEN value[w]
                                ELSE IF w \in DOMAIN value THEN value[w] + 1 ELSE 1]
    /\ input' = [input EXCEPT ![s] = None]
    /\ UNCHANGED <<first, db, now, env, pending, resp, seed, draws, output>>

\* index.js:589-681: fetch runs to its response; it never calls
\* checkRateLimit and never touches the KV namespace
LimitFetch ==
    /\ pending # None
    /\ \E r \in {fetch(pending[1], env, db, now, "u1")} :
          /\ resp' = Some([request |-> pending[1], at |-> now,
                           status |-> r.status, error |-> r.error,
                           ran |-> r.ran, poll |-> r.poll])
          /\ db' = r.db
    /\ pending' = None
    /\ UNCHANGED <<state, input, value, first, now, env, seed, draws, output>>

LimitTick ==
    /\ now + LimitStep <= MaxLimitTicks * LimitStep
    /\ now' = now + LimitStep
    /\ UNCHANGED <<state, input, value, first, db, env, pending, resp, seed, draws, output>>

NextLimit ==
    \/ \E req \in LimitRequests : Receive(req)
    \/ LimitFetch
    \/ \E s \in Slots : \E ip \in LimitIps : CheckRead(s, ip)
    \/ \E s \in Slots : CheckWrite(s)
    \/ LimitTick

SpecLimit == InitLimit /\ [][NextLimit]_vars

\* ------------------------------------------------------------------------
\* handleNdjsonRequest: src/src/index.js:749-800. Texts are sequences of
\* characters; the remote fetch either fails or delivers a body that is or is
\* not NDJSON.
\* ------------------------------------------------------------------------
\* "ntfy.sh,stuarteggerton.com"
DefaultNdjsonHosts ==
    <<"n", "t", "f", "y", ".", "s", "h", ",", "s", "t", "u", "a", "r", "t", "e", "g", "g", "e", "r", "t", "o", "n", ".", "c", "o", "m">>

\* part stands in text at position k
SubSeqIs(text, part, k) ==
    k + Len(part) - 1 <= Len(text) /\ SubSeq(text, k, k + Len(part) - 1) = part

\* String.prototype.includes: part occurs somewhere in text
Includes(text, part) == \E k \in 1..(Len(text) + 1) : SubSeqIs(text, part, k)

\* text.split(',') as a set
RECURSIVE CommaSplit(_, _)
CommaSplit(text, word) ==
    IF text = <<>> THEN {word}
    ELSE IF Head(text) = "," THEN {word} \cup CommaSplit(Tail(text), <<>>)
    ELSE CommaSplit(Tail(text), Append(word, Head(text)))

\* index.js:750
ValidHostsForNdjson(e) ==
    IF e.ENABLE_IMAGE_GENERATION = None \/ e.ENABLE_IMAGE_GENERATION = Some(<<>>)
    THEN DefaultNdjsonHosts
    ELSE e.ENABLE_IMAGE_GENERATION[1]

\* the test handleXmlRequest makes (index.js:814): split(',').includes(hostname)
HostAllowedExactly(validHosts, hostname) == hostname \in CommaSplit(validHosts, <<>>)

\* index.js:766: VALID_HOSTS_FOR_NDJSON_TO_JSON.includes(hostname) on a string
HostAllowed(validHosts, hostname) == Includes(validHosts, hostname)

\* index.js:749-800; remote is what fetch(urlParam) does: "error", "ndjson"
\* or "other". fetched tells whether the remote URL was requested.
handleNdjsonRequest(request, e, remote) ==
    IF request.url = None
    THEN [status |-> 400, error |-> "URL parameter is required", fetched |-> FALSE]
    ELSE IF ~HostAllowed(ValidHostsForNdjson(e), request.url[1].hostname)
    THEN [status |-> 403,
          error |-> "Invalid hostname - limited hostnames allowed in url parameter",
          fetched |-> FALSE]
    ELSE IF remote = "error"
    THEN [status |-> 400, error |-> "Error fetching URL", fetched |-> TRUE]
    ELSE IF remote = "other"
    THEN [status |-> 400, error |-> "Invalid NDJSON format", fetched |-> TRUE]
    ELSE [status |-> 200, error |-> "", fetched |-> TRUE]

\* ------------------------------------------------------------------------
\* SpecHosts: /ndjson-to-json requests for URLs on various hosts, with the
\* host list left at its default or configured
\* ------------------------------------------------------------------------
NtfyHost == <<"n", "t", "f", "y", ".", "s", "h">>
StuartHost == <<"s", "t", "u", "a", "r", "t", "e", "g", "g", "e", "r", "t", "o", "n", ".", "c", "o", "m">>
EggertonHost == <<"e", "g", "g", "e", "r", "t", "o", "n", ".", "c", "o", "m">>
ShHost == <<"s", "h">>
ExampleHost == <<"e", "x", "a", "m", "p", "l", "e", ".", "c", "o", "m">>
NtfySubdomainHost == <<"n", "t", "f", "y", ".", "s", "h", ".", "e", "x", "a", "m", "p", "l", "e", ".", "c", "o", "m">>
IrishRailHost == <<"a", "p", "i", ".", "i", "r", "i", "s", "h", "r", "a", "i", "l", ".", "i", "e">>
TrueHost == <<"t", "r", "u", "e">>
LocalHost == <<"l", "o", "c", "a", "l", "h", "o", "s", "t">>
ComHost == <<"c", "o", "m">>
NtfyName == <<"n", "t", "f", "y">>

NdjsonHosts ==
    {NtfyHost, StuartHost, EggertonHost, ShHost, ExampleHost, NtfySubdomainHost,
     IrishRailHost, TrueHost, LocalHost, ComHost, NtfyName}

HostEnvs ==
    {[ENABLE_IMAGE_GENERATION |-> v] : v \in {None, Some(TrueHost), Some(ExampleHost), Some(NtfyHost)}}

NdjsonRequests ==
    {[path |-> "/ndjson-to-json", url |-> u] :
        u \in {None} \cup {Some([hostname |-> h]) : h \in NdjsonHosts}}

RemoteOutcomes == {"error", "ndjson", "other"}

InitHosts ==
    /\ env \in HostEnvs
    /\ pending = None /\ resp = None
    /\ seed = None /\ state = None /\ draws = None /\ value = None
    /\ input = None /\ output = None /\ first = None /\ db = None /\ now = None

HandleNdjsonRequest ==
    /\ pending # None
    /\ \E remote \in RemoteOutcomes :
         \E r \in {handleNdjsonRequest(pending[1], env, remote)} :
            resp' = Some([request |-> pending[1], status |-> r.status,
                          error |-> r.error, fetched |-> r.fetched])
    /\ pending' = None
    /\ UNCHANGED <<seed, state, draws, value, input, output, first, db, now, env>>

NextHosts ==
    \/ \E req \in NdjsonRequests : Receive(req)
    \/ HandleNdjsonRequest

SpecHosts == InitHosts /\ [][NextHosts]_vars

\* ------------------------------------------------------------------------
\* The poll page: the script of renderPollSpa, src/src/index.js:1239-1514.
\* `state` is the script's state object, `output` what renderPoll last put
\* on the page, `db` the store of the worker the page talks to.
\* ------------------------------------------------------------------------
DrumrollMs == 3000

NoTimers == [refresh |-> FALSE, countdown |-> FALSE, drumroll |-> None]

\* index.js:1241-1252
PageState ==
    [poll |-> None, selected |-> None, phase |-> "idle", endsAt |-> None,
     timers |-> NoTimers, confettiShown |-> FALSE, votedOption |-> None,
     drumCount |-> 0]

\* the page as served, before the first renderPoll
BlankPage ==
    [subtitle |-> "", remaining |-> None, options |-> <<>>, voteBtn |-> TRUE]

\* the options in the order of opts with option x put before the first
\* option with fewer votes: sort of index.js:1285-1292, ties kept in id order
RECURSIVE InsertByVotes(_, _)
InsertByVotes(opts, x) ==
    IF opts = <<>> THEN <<x>>
    ELSE IF Head(opts).votes < x.votes THEN <<x>> \o opts
    ELSE <<Head(opts)>> \o InsertByVotes(Tail(opts), x)

RECURSIVE SortByVotes(_)
SortByVotes(opts) ==
    IF opts = <<>> THEN <<>>
    ELSE InsertByVotes(SortByVotes(SubSeq(opts, 1, Len(opts) - 1)), opts[Len(opts)])

\* mutant: the options stay in the order of the poll
viewOptionsUnsorted(st) == IF st.poll = None THEN <<>> ELSE st.poll[1].options

\* index.js:1281-1295
viewOptions(st) ==
    IF st.poll = None THEN <<>>
    ELSE IF st.phase = "reveal" THEN SortByVotes(st.poll[1].options)
    ELSE st.poll[1].options

\* index.js:1297-1377 and 1476-1483: what renderPoll shows of state st at
\* time t; votes is the number shown with an option, if one is shown
PageOf(st, t) ==
    IF st.poll = None
    THEN [subtitle |-> "Loading question...", remaining |-> None, options |-> <<>>,
          voteBtn |-> st.phase \notin {"drumroll", "reveal"}]
    ELSE [subtitle |-> IF st.phase = "reveal" THEN "Results locked in."
                       ELSE IF st.phase = "drumroll" THEN "Drum roll..."
                       ELSE "Vote before the timer hits zero.",
          remaining |-> IF st.phase = "countdown" /\ st.endsAt # None
                        THEN Some(IF st.endsAt[1] > t
                                  THEN (st.endsAt[1] - t) \div MsPerSecond ELSE 0)
                        ELSE None,
          options |-> LET opts == viewOptions(st)
                      IN  [k \in DOMAIN opts |->
                              [name |-> opts[k].name,
                               votes |-> IF st.phase = "reveal"
                                         THEN Some(opts[k].votes) ELSE None]],
          voteBtn |-> st.phase \notin {"drumroll", "reveal"}]

\* index.js:1366-1376: what renderPoll changes in the state
AfterRender(st) ==
    IF st.poll = None THEN st
    ELSE IF st.phase = "drumroll" THEN [st EXCEPT !.drumCount = @ + 1]
    ELSE IF st.phase = "reveal" THEN [st EXCEPT !.confettiShown = TRUE]
    ELSE st

\* index.js:1427-1439: the time the countdown runs to, for a poll whose open
\* and close parse as dates
EndsAt(poll, t) ==
    LET durationMs == DurationOnReset(poll.durationSeconds) * MsPerSecond
    IN  Min(poll.open + durationMs, poll.close)

\* index.js:1424-1464 up to the timers: startCountdown at time t
startCountdown(st, t) ==
    IF st.poll = None THEN st
    ELSE LET endsAt == EndsAt(st.poll[1], t)
             s1 == [st EXCEPT !.timers = NoTimers, !.confettiShown = FALSE,
                              !.endsAt = Some(endsAt)]
         IN  IF endsAt <= t
             THEN [AfterRender([s1 EXCEPT !.phase = "drumroll", !.drumCount = 0])
                       EXCEPT !.timers.drumroll = Some(t + DrumrollMs)]
             ELSE [s1 EXCEPT !.phase = "countdown", !.timers.refresh = TRUE,
                             !.timers.countdown = TRUE]

\* ------------------------------------------------------------------------
\* SpecSpa: one page for poll p1 talking to the worker in development mode,
\* another client voting meanwhile. Every callback of the script runs to its
\* end in one step, the request it makes included. The clock advances by
\* seconds, up to MaxSpaClock and beyond while a timer waits for its time.
\* ------------------------------------------------------------------------
SpaPoll == "p1"

SpaPollBodies ==
    { [EmptyBody EXCEPT !.id = Some(SpaPoll), !.options = <<"A", "B">>,
                        !.durationSeconds = Some(<<2, 1>>)],
      [EmptyBody EXCEPT !.id = Some(SpaPoll), !.options = <<"A", "B">>,
                        !.durationSeconds = Some(<<2, 1>>),
                        !.close = Some(Num(5 * MsPerSecond))],
      [EmptyBody EXCEPT !.id = Some(SpaPoll), !.options = <<"A", "B", "C">>,
                        !.close = Some(Num(3 * MsPerSecond))] }

PageIp == Some("10.0.0.1")
OtherIp == Some("10.0.0.2")

VoteReq(ip, i) ==
    Req("/poll/vote", ip,
        [EmptyBody EXCEPT !.pollId = Some(SpaPoll), !.optionIndex = Some(i)])

InitSpa ==
    /\ db \in {handleCreatePollRequest(Req("/poll/new", None, b), EmptyDb, 0, "u1",
                                        None).db : b \in SpaPollBodies}
    /\ now = 0
    /\ env = DevelopmentEnv
    /\ state = PageState
    /\ output = BlankPage
    /\ pending = None /\ resp = None /\ first = None
    /\ seed = None /\ draws = None /\ value = None /\ input = None

\* index.js:1507-1509 with 1379-1389 and 1424-1464: the poll is fetched and
\* the countdown started
LoadPoll ==
    /\ state.phase = "idle" /\ state.poll = None
    /\ now <= MaxSpaClock
    /\ \E st \in {startCountdown(AfterRender([state EXCEPT
                        !.poll = Some(getPoll(SpaPoll, db))]), now)} :
          /\ state' = st
          /\ output' = PageOf(st, now)
    /\ UNCHANGED <<db, now, env, pending, resp, first, seed, draws, value, input>>

\* index.js:1452 with 1379-1389: the refresh interval fires
Refresh ==
    /\ state.timers.refresh
    /\ \E st \in {AfterRender([state EXCEPT !.poll = Some(getPoll(SpaPoll, db))])} :
          /\ state' = st
          /\ output' = PageOf(st, now)
    /\ UNCHANGED <<db, now, env, pending, resp, first, seed, draws, value, input>>

\* index.js:1453-1463: the countdown interval fires
CountdownTick ==
    /\ state.timers.countdown
    /\ \E st \in {IF state.endsAt[1] - now <= 0
                   THEN [AfterRender([state EXCEPT !.timers = NoTimers,
                                                   !.phase = "drumroll"])
                            EXCEPT !.timers.drumroll = Some(now + DrumrollMs)]
                   ELSE AfterRender(state)} :
          /\ state' = st
          /\ output' = PageOf(st, now)
    /\ UNCHANGED <<db, now, env, pending, resp, first, seed, draws, value, input>>

\* index.js:1466-1474: the drum roll timeout fires
revealResults ==
    /\ state.timers.drumroll # None
    /\ now >= state.timers.drumroll[1]
    /\ \E st \in {AfterRender([state EXCEPT !.phase = "reveal",
                                             !.timers.drumroll = None,
                                             !.poll = Some(getPoll(SpaPoll, db)),
                                             !.confettiShown = TRUE])} :
          /\ state' = st
          /\ output' = PageOf(st, now)
    /\ UNCHANGED <<db, now, env, pending, resp, first, seed, draws, value, input>>

\* index.js:1357-1361: the user picks option i, its radio button enabled
SelectOption(i) ==
    /\ state.poll # None /\ state.phase = "countdown" /\ state.votedOption = None
    /\ i < Len(state.poll[1].options)
    /\ state' = [state EXCEPT !.selected = Some(i)]
    /\ UNCHANGED <<output, db, now, env, pending, resp, first, seed, draws, value, input>>

\* index.js:1391-1422: a click on the vote button while it is shown
submitVote ==
    /\ output.voteBtn
    /\ IF state.phase # "countdown" \/ state.poll = None \/ state.selected = None
       THEN UNCHANGED <<state, output, db>>
       ELSE \E r \in {handleVoteRequest(VoteReq(PageIp, state.selected[1]),
                                          env, db, now)} :
               /\ db' = r.db
               /\ IF r.status # 200 THEN UNCHANGED <<state, output>>
                  ELSE \E st \in {AfterRender([state EXCEPT
                                      !.poll = r.poll,
                                      !.votedOption = state.selected])} :
                          /\ state' = st
                          /\ output' = PageOf(st, now)
    /\ UNCHANGED <<now, env, pending, resp, first, seed, draws, value, input>>

\* index.js:902-931: another client votes
OtherVote(i) ==
    /\ db' = handleVoteRequest(VoteReq(OtherIp, i), env, db, now).db
    /\ UNCHANGED <<state, output, now, env, pending, resp, first, seed, draws, value, input>>

\* a second passes
SpaTick ==
    /\ \/ now + MsPerSecond <= MaxSpaClock
       \/ state.phase = "countdown" /\ now < state.endsAt[1]
       \/ state.timers.drumroll # None /\ now < state.timers.drumroll[1]
    /\ now' = now + MsPerSecond
    /\ UNCHANGED <<state, output, db, env, pending, resp, first, seed, draws, value, input>>

NextSpa ==
    \/ LoadPoll
    \/ Refresh
    \/ CountdownTick
    \/ revealResults
    \/ \E i \in 0..2 : SelectOption(i)
    \/ submitVote
    \/ \E i \in 0..2 : OtherVote(i)
    \/ SpaTick

SpecSpa == InitSpa /\ [][NextSpa]_vars

\* the page stays open: time passes and the page's load, interval and timeout
\* callbacks run
SpecSpaLive ==
    /\ SpecSpa
    /\ WF_vars(SpaTick) /\ WF_vars(LoadPoll)
    /\ WF_vars(CountdownTick) /\ WF_vars(revealResults)

\* ------------------------------------------------------------------------
\* SpecAuth: the worker in production and in development, with and without
\* MASTER_KEY, receiving requests that present keys of every kind
\* ------------------------------------------------------------------------
Master == <<Lit("a"), Lit("b"), Lit("c"), Lit("1")>>
OtherMaster == <<Lit("x"), Lit("y"), Lit("z"), Lit("1")>>

AuthEnvs ==
    { [ENVIRONMENT |-> "production", NODE_ENV |-> "production", MASTER_KEY |-> Some(Master)],
      [ENVIRONMENT |-> "production", NODE_ENV |-> "production", MASTER_KEY |-> None],
      [ENVIRONMENT |-> "development", NODE_ENV |-> "production", MASTER_KEY |-> Some(Master)],
      [ENVIRONMENT |-> "production", NODE_ENV |-> "development", MASTER_KEY |-> None] }

DateText(day) == <<Lit(DateTexts[day + 1])>>

\* keys issued at time 0: good until day 1, good until day 0, signed with
\* another MASTER_KEY, scoped to poll p1, and without a date
GoodKey == generateApiKey(DateText(1), <<>>, Some(Master), 0)[1]
TodayKey == generateApiKey(DateText(0), <<>>, Some(Master), 0)[1]
ForgedKey == generateApiKey(DateText(1), <<>>, Some(OtherMaster), 0)[1]
ScopedKey == generateApiKey(DateText(1), <<Lit("p1")>>, Some(Master), 0)[1]
UndatedKey == generateApiKey(<<Lit("never")>>, <<>>, Some(Master), 0)[1]
OtherPrefixKey == <<Lit("other")>> \o Tail(GoodKey)

\* the X-API-Key header and the `key` parameter of a request
KeyPlacements ==
    {<<None, None>>, <<Some(<<>>), Some(GoodKey)>>, <<None, Some(GoodKey)>>,
     <<None, Some(<<>>)>>}
    \cup {<<Some(k), None>> :
            k \in {GoodKey, TodayKey, ForgedKey, ScopedKey, UndatedKey, OtherPrefixKey}}

AuthBody ==
    [EmptyBody EXCEPT !.pollId = Some("p1"), !.optionIndex = Some(0),
                      !.id = Some("p1"), !.options = <<"A">>]

AuthRequests ==
    {[path |-> path, header |-> k[1], query |-> k[2], ip |-> None, body |-> AuthBody] :
        path \in ProtectedPaths \cup {"/poll/vote", "/nowhere"}, k \in KeyPlacements}

InitAuth ==
    /\ db = EmptyDb
    /\ now = 0
    /\ env \in AuthEnvs
    /\ pending = None /\ resp = None
    /\ first = None /\ state = None
    /\ seed = None /\ draws = None /\ value = None
    /\ input = None /\ output = None

NextAuth ==
    \/ \E req \in AuthRequests : Arrive(req)
    \/ Fetch
    \/ Tick

SpecAuth == InitAuth /\ [][NextAuth]_vars

\* ------------------------------------------------------------------------
\* SpecKey: generateApiKey run with some MASTER_KEY, expiry and resource, and
\* the key it prints presented to validateApiKey later
\* ------------------------------------------------------------------------
ShortMaster == <<Lit("a"), Lit("b")>>

KeyExpiries == {DateText(day) : day \in 0..(Len(DateTexts) - 1)} \cup {<<Lit("never")>>}

KeyResources == {<<>>, <<Lit("p1")>>, <<Lit("my"), Sep, Lit("poll")>>}

\* the start of each day and one millisecond later
KeyTimes == {day * MsPerDay + ms : day \in 0..MaxKeyDay, ms \in {0, 1}}

ProductionEnv(masterKey) ==
    [ENVIRONMENT |-> "production", NODE_ENV |-> "production", MASTER_KEY |-> masterKey]

InitKey ==
    /\ input \in [masterKey : {Some(Master), Some(ShortMaster), None},
                  expiry : KeyExpiries, resource : KeyResources]
    /\ now \in KeyTimes
    /\ env = ProductionEnv(input.masterKey)
    /\ output = None /\ resp = None
    /\ pending = None /\ first = None /\ state = None
    /\ seed = None /\ draws = None /\ value = None
    /\ db = None

\* node scripts/generate-api-key.js <expiry> <resource>
GenerateKey ==
    /\ output = None
    /\ output' = Some([issued |-> now,
                       key |-> generateApiKey(input.expiry, input.resource,
                                              input.masterKey, now)])
    /\ UNCHANGED <<input, now, env, resp, pending, first, state, seed, draws, value, db>>

KeyTick ==
    /\ \E t \in KeyTimes : t > now /\ now' = t
    /\ UNCHANGED <<input, output, env, resp, pending, first, state, seed, draws, value, db>>

\* the printed key sent in the X-API-Key header
ValidateKey ==
    /\ output # None /\ output[1].key # None
    /\ resp' = Some([at |-> now,
                     result |-> validateApiKey([header |-> output[1].key, query |-> None],
                                               env, now)])
    /\ UNCHANGED <<input, output, now, env, pending, first, state, seed, draws, value, db>>

NextKey == GenerateKey \/ KeyTick \/ ValidateKey

SpecKey == InitKey /\ [][NextKey]_vars

\* ========================================================================
\* Properties
\* ========================================================================

\* The contract of the generator, computed independently of RandomState: the
\* long multiplication of the four bytes of the state by the three bytes of
\* 1664525, plus the four bytes of 1013904223, keeping the low four bytes.
LcgContract(s) ==
    LET s0 == s[2] % 256            s1 == s[2] \div 256
        s2 == s[1] % 256            s3 == s[1] \div 256
        a0 == LcgMultiplier % 256   a1 == (LcgMultiplier \div 256) % 256
        a2 == LcgMultiplier \div 65536
        c0 == LcgIncrement % 256    c1 == (LcgIncrement \div 256) % 256
        c2 == (LcgIncrement \div 65536) % 256
        c3 == LcgIncrement \div 16777216
        t0 == s0 * a0 + c0
        t1 == s0 * a1 + s1 * a0 + c1 + (t0 \div 256)
        t2 == s0 * a2 + s1 * a1 + s2 * a0 + c2 + (t1 \div 256)
        t3 == s1 * a2 + s2 * a1 + s3 * a0 + c3 + (t2 \div 256)
    IN  <<(t3 % 256) * 256 + (t2 % 256), (t1 % 256) * 256 + (t0 % 256)>>

\* the n-th state of the stream of seed s
RECURSIVE Stream(_, _)
Stream(s, n) ==
    IF n = 0 THEN s
    ELSE LET before == Stream(s, n - 1)
         IN  IF Len(before) = 2 THEN LcgContract(before) ELSE before

\* ---- C1 ----------------------------------------------------------------
\* C1: two invocations with the same (seed, width, height, maxIter, variant,
\* format) return the same intensity grid and the same encoded bytes,
\* whatever invocations ran between them.
C1_Deterministic ==
    (resp # None /\ first # None /\ resp[1].args = first[1].args)
        => /\ resp[1].pixelData = first[1].pixelData
           /\ resp[1].body = first[1].body

\* the watched arguments were served, then other arguments, then the
\* watched arguments again
C1_Witness ==
    /\ resp # None /\ first # None
    /\ first[1].others = 1
    /\ resp[1].args = first[1].args

\* ---- C2 ----------------------------------------------------------------
\* C2: every value random() returns is >= 0 and < 1.
C2_ValueInHalfOpenUnit ==
    value # None => LessU32(value[1].num, value[1].den)

\* ---- C3 ----------------------------------------------------------------
\* C3: a closure starts from its seed, every draw replaces the state by
\* (state * 1664525 + 1013904223) mod 2^32, and the state stays a 32-bit
\* unsigned word; so the n-th state is a function of the seed and n alone.
C3_StateIsStreamOfSeed ==
    /\ draws = 0 => state = seed
    /\ [][/\ state' = LcgContract(state)
          /\ state'[1] \in 0..(Half - 1)
          /\ state'[2] \in 0..(Half - 1)
          /\ draws' = draws + 1]_vars

\* three draws from a closure seeded with 12345
C3_Witness == draws = 3 /\ seed = U32(12345) /\ state # seed

\* ---- C4 ----------------------------------------------------------------
\* the value of a 32-bit state as a draw, in the fixed point of the model
DrawFx(s) == IF s[1] = Half - 1 /\ s[2] = Half - 1 THEN Scale
             ELSE (s[1] * Scale) \div Half

\* C4 as claimed: with the variant unspecified, the variant comes from draw 1
\* of the seed's stream and zoom, centerX, centerY, juliaX, juliaY from
\* draws 2..6.
C4_ParamsFromDraws2To6 ==
    (resp # None /\ resp[1].typeDraw # None)
        => /\ resp[1].typeDraw[1] = Stream(resp[1].args.seed, 1)
           /\ \A k \in 1..5 :
                 resp[1].params.draws[k] = Stream(resp[1].args.seed, k + 1)

\* C4 amended: with the variant unspecified, the variant comes from draw 1 of
\* a generator seeded with the request seed; generateFractal starts a second
\* generator from the same seed, so zoom comes from draw 1 of the stream
\* again and centerX, centerY, juliaX, juliaY from draws 2, 3, 4, 5.
C4_ParamsFromDraws1To5 ==
    (resp # None /\ resp[1].typeDraw # None)
        => LET r  == resp[1]
               d  == [k \in 1..5 |-> DrawFx(Stream(r.args.seed, k))]
               mandelbrot == r.fractalType # "julia"
           IN  /\ r.typeDraw[1] = Stream(r.args.seed, 1)
               /\ \A k \in 1..5 : r.params.draws[k] = Stream(r.args.seed, k)
               /\ r.params.zoom = Fx(28, 10) + FxMul(d[1], Fx(8, 10))
               /\ mandelbrot =>
                    r.params.centerX = FxMul(d[2] - Fx(1, 2), Fx(3, 10)) - Fx(65, 100)
               /\ mandelbrot =>
                    r.params.centerY = FxMul(d[3] - Fx(1, 2), Fx(3, 10))
               /\ r.params.juliaX = FxMul(d[4], Fx(8, 10)) - Fx(4, 10)
               /\ r.params.juliaY = FxMul(d[5], Fx(8, 10)) - Fx(4, 10)

\* an auto-selected Mandelbrot image: the draw that chose the variant is the
\* draw zoom is made of
C4_Witness ==
    /\ resp # None
    /\ resp[1].typeDraw # None
    /\ resp[1].fractalType = "mandelbrot"
    /\ resp[1].typeDraw[1] = resp[1].params.draws[1]

\* ---- C5 ----------------------------------------------------------------
\* C5: without a type parameter the variant is Mandelbrot when the first
\* draw of the request seed is below 0.5 and Julia otherwise; with one it is
\* the type named; BurningShip only when the request names it.
C5_AutoVariant ==
    resp # None
        => LET r  == resp[1]
               d1 == Stream(r.args.seed, 1)
           IN  /\ r.args.typeParam = None =>
                    r.fractalType = IF d1[1] <= 32767 THEN "mandelbrot" ELSE "julia"
               /\ r.args.typeParam # None => r.fractalType = r.args.typeParam[1]
               /\ r.fractalType = "burningship" =>
                    r.args.typeParam = Some("burningship")

\* a request without type whose first draw is not below 0.5
C5_Witness ==
    /\ resp # None
    /\ resp[1].args.typeParam = None
    /\ resp[1].fractalType = "julia"

\* ---- C6 ----------------------------------------------------------------
\* C6 as claimed: a pixel's intensity is 0 exactly when its escape count
\* equals maxIter.
C6_ZeroIffMaxIter ==
    resp # None
        => \A p \in 1..Len(resp[1].iters) :
              resp[1].pixelData[p] = 0 <=> resp[1].iters[p] = resp[1].args.maxIter[1]

\* C6 amended: a pixel's intensity is 0 exactly when its escape count is
\* maxIter or 0 (a Julia pixel outside the radius at the first test).
C6_ZeroIffMaxIterOrZero ==
    resp # None
        => \A p \in 1..Len(resp[1].iters) :
              resp[1].pixelData[p] = 0
                  <=> resp[1].iters[p] \in {0, resp[1].args.maxIter[1]}

\* a grid with a pixel of count 0, one of count maxIter and one in between
C6_Witness ==
    /\ resp # None
    /\ \E p, q, t \in 1..Len(resp[1].pixelData) :
          /\ resp[1].iters[p] = 0 /\ resp[1].pixelData[p] = 0
          /\ resp[1].iters[q] = resp[1].args.maxIter[1] /\ resp[1].pixelData[q] = 0
          /\ resp[1].iters[t] \notin {0, resp[1].args.maxIter[1]}
          /\ resp[1].pixelData[t] > 0

\* ---- C7 ----------------------------------------------------------------
\* zx^2 + zy^2 > 4
Escaped(z) == z[1] * z[1] + z[2] * z[2] > 4 * Scale * Scale

\* C7: for every pixel the loop makes i <= maxIter updates, no test before
\* the last one saw an escape, and when i < maxIter the last test did.
C7_EscapeLoop ==
    resp # None
        => \A p \in 1..Len(resp[1].orbit) :
              LET T == resp[1].orbit[p]
                  i == resp[1].iters[p]
              IN  /\ 0 <= i /\ i <= resp[1].args.maxIter[1]
                  /\ Len(T) = i + 1
                  /\ \A j \in 1..i : ~Escaped(T[j])
                  /\ i < resp[1].args.maxIter[1] => Escaped(T[i + 1])

\* a Burning Ship grid with a pixel that never escaped and one that escaped
\* after at least one update
C7_Witness ==
    /\ resp # None
    /\ resp[1].fractalType = "burningship"
    /\ \E p, q \in 1..Len(resp[1].orbit) :
          /\ resp[1].iters[p] = resp[1].args.maxIter[1]
          /\ resp[1].iters[q] > 0 /\ resp[1].iters[q] < resp[1].args.maxIter[1]

\* ---- C8 ----------------------------------------------------------------
\* the largest k with k * k * m <= 65025 * i
ExactFloor(i, m) ==
    CHOOSE k \in 0..255 : /\ k * k * m <= 65025 * i
                          /\ (k + 1) * (k + 1) * m > 65025 * i

\* C8 as claimed: for i < maxIter the intensity is the largest k with
\* k * k * maxIter <= 65025 * i, and 0 for i = maxIter.
C8_IntensityIsExactFloor ==
    output # None
        => output[1] = IF input.i = input.maxIter THEN 0
                       ELSE ExactFloor(input.i, input.maxIter)

\* C8 amended: the intensity is floor(255 * sqrt(i / maxIter)) in double
\* arithmetic: the largest k with k * k * maxIter <= 65025 * i, or one less
\* when 65025 * i / maxIter is the square of k; 0 for i = maxIter; within
\* 0..255 and non-decreasing in i below maxIter.
C8_IntensityIsRoundedFloor ==
    output # None
        => LET k == ExactFloor(input.i, input.maxIter)
           IN  /\ output[1] \in 0..255
               /\ input.i = input.maxIter => output[1] = 0
               /\ input.i < input.maxIter =>
                    /\ output[1] \in {k, k - 1}
                    /\ output[1] = k - 1 => k * k * input.maxIter = 65025 * input.i
                    /\ input.below # None => input.below[1] <= output[1]

\* i = 169, maxIter = 225: 255 * sqrt(169 / 225) is 221 exactly, the doubles
\* give 220
C8_Witness ==
    /\ input.maxIter = 225 /\ input.i = 169
    /\ output = Some(220)
    /\ input.below = Some(220)

\* ---- C9 ----------------------------------------------------------------
\* the little-endian signed 32-bit field at offset o of buffer B
S32LE(B, o) ==
    B[o + 1] + 256 * B[o + 2] + 65536 * B[o + 3] +
    16777216 * (IF B[o + 4] >= 128 THEN B[o + 4] - 256 ELSE B[o + 4])

\* ceil(width / 4) * 4
Stride(width) == ((width + 3) \div 4) * 4

\* C9: the BMP has 54 + 1024 + stride * height bytes, starts with 'B' 'M',
\* and its size field holds its length.
C9_BmpSize ==
    output # None
        => /\ Len(output[1]) = 54 + 1024 + Stride(input.width) * input.height
           /\ output[1][1] = 66 /\ output[1][2] = 77
           /\ S32LE(output[1], 2) = Len(output[1])

\* a width that is not a multiple of four, above four
C9_Witness ==
    /\ output # None
    /\ input.width = 5 /\ input.height = 3
    /\ Len(output[1]) = 1102

\* ---- C10 ---------------------------------------------------------------
\* what a BMP reader makes of buffer B: the gray value of every pixel in
\* row-major order from the top, through the header fields and the palette
DecodeBmp(B) ==
    LET w       == S32LE(B, 18)
        hField  == S32LE(B, 22)
        h       == IF hField < 0 THEN 0 - hField ELSE hField
        offset  == S32LE(B, 10)
        bits    == B[29] + 256 * B[30]
        rowLen  == ((w * bits + 31) \div 32) * 4
        row(y)  == IF hField < 0 THEN y ELSE h - 1 - y
        index(x, y) == B[offset + row(y) * rowLen + x + 1]
    IN  [p \in 1..(w * h) |->
           B[54 + 4 * index((p - 1) % w, (p - 1) \div w) + 1]]

\* C10: pixel data starts at 1078, rows are top-down with a negative height
\* field, pixel (x, y) is the byte at 1078 + y * stride + x, row tails are 0,
\* palette entry i is (i, i, i, 0), and decoding returns the grid.
C10_BmpLayout ==
    output # None
        => LET B == output[1]
               w == input.width
               h == input.height
           IN  /\ S32LE(B, 10) = 1078
               /\ S32LE(B, 22) = 0 - h
               /\ S32LE(B, 18) = w
               /\ \A y \in 0..(h - 1) :
                     /\ \A x \in 0..(w - 1) :
                           B[1078 + y * Stride(w) + x + 1] = input.pixelData[y * w + x + 1]
                     /\ \A x \in w..(Stride(w) - 1) :
                           B[1078 + y * Stride(w) + x + 1] = 0
               /\ \A i \in 0..255 :
                     /\ B[54 + 4 * i + 1] = i /\ B[54 + 4 * i + 2] = i
                     /\ B[54 + 4 * i + 3] = i /\ B[54 + 4 * i + 4] = 0
               /\ DecodeBmp(B) = input.pixelData

\* three rows of three distinct pixels and one tail byte each
C10_Witness ==
    /\ output # None
    /\ input.width = 3 /\ input.height = 3
    /\ input.pixelData = Pattern(37, 9)
    /\ output[1][1078 + 4 + 1] = input.pixelData[4]

\* ---- C11 ---------------------------------------------------------------
\* the big-endian unsigned 32-bit field at offset o of buffer B (below 2^31)
U32BE(B, o) ==
    16777216 * B[o + 1] + 65536 * B[o + 2] + 256 * B[o + 3] + B[o + 4]

\* C11: the PNG is the 8-byte signature, the 25-byte IHDR chunk, one IDAT
\* chunk whose length field is height * (width + 1) + 11, and the 12-byte
\* IEND chunk, in this order: height * (width + 1) + 68 bytes in all.
C11_PngLayout ==
    output # None
        => LET B    == output[1]
               n    == input.height * (input.width + 1) + 11
               iend == 8 + 25 + 12 + n
           IN  /\ Len(B) = input.height * (input.width + 1) + 68
               /\ SubSeq(B, 1, 8) = <<137, 80, 78, 71, 13, 10, 26, 10>>
               /\ U32BE(B, 8) = 13
               /\ SubSeq(B, 13, 16) = <<73, 72, 68, 82>>
               /\ U32BE(B, 33) = n
               /\ SubSeq(B, 38, 41) = <<73, 68, 65, 84>>
               /\ Len(B) = iend + 12
               /\ U32BE(B, iend) = 0
               /\ SubSeq(B, iend + 5, iend + 8) = <<73, 69, 78, 68>>

\* a 5 x 3 grid: 18 scanline bytes, 86 bytes in all
C11_Witness ==
    /\ output # None
    /\ input.width = 5 /\ input.height = 3
    /\ Len(output[1]) = 86
    /\ U32BE(output[1], 33) = 29

\* ---- C12 ---------------------------------------------------------------
\* the bytes of the stored block of the IDAT chunk of PNG B: the zlib stream
\* starts at offset 41, the block's LEN field is at 44 and its data at 48
StoredPayload(B) == SubSeq(B, 49, 48 + B[45] + 256 * B[46])

\* the grid a reader makes of the unfiltered scanlines S of a width x height
\* image
Unfilter(S, width, height) ==
    [p \in 1..(width * height) |->
       S[((p - 1) \div width) * (width + 1) + 1 + ((p - 1) % width) + 1]]

\* C12: the scanline buffer stored in the IDAT chunk has height * (width + 1)
\* bytes, row y starts with the filter byte 0 at y * (width + 1) and goes on
\* with the width grid values of row y; reading it back gives the grid.
C12_PngScanlines ==
    output # None
        => LET S == StoredPayload(output[1])
               w == input.width
               h == input.height
           IN  /\ Len(S) = h * (w + 1)
               /\ \A y \in 0..(h - 1) :
                     /\ S[y * (w + 1) + 1] = 0
                     /\ \A x \in 0..(w - 1) :
                           S[y * (w + 1) + 1 + x + 1] = input.pixelData[y * w + x + 1]
               /\ Unfilter(S, U32BE(output[1], 16), U32BE(output[1], 20))
                     = input.pixelData

\* three rows of three distinct non-zero pixels
C12_Witness ==
    /\ output # None
    /\ input.width = 3 /\ input.height = 3
    /\ input.pixelData = Pattern(37, 9)
    /\ StoredPayload(output[1])[4 + 1 + 1] = input.pixelData[4]

\* ---- C13 ---------------------------------------------------------------
\* the format maxima and the iteration limit
MaxWidthOf(useBmp) == IF useBmp THEN 800 ELSE 320
MaxHeightOf(useBmp) == IF useBmp THEN 600 ELSE 200

\* v <= m as JavaScript evaluates it: false for NaN
LeqJs(v, m) == ~IsNaN(v) /\ v[1] <= m

\* C13 as claimed: whatever the query parameters are, the core receives
\* width <= 800 and height <= 600 for BMP, width <= 320 and height <= 200
\* for PNG, and maxIter <= 800.
C13_ArgsWithinMaxima ==
    output # None
        => /\ LeqJs(output[1].width, MaxWidthOf(output[1].useBmp))
           /\ LeqJs(output[1].height, MaxHeightOf(output[1].useBmp))
           /\ LeqJs(output[1].maxIter, 800)

\* C13 amended: each of width, height and maxIter the core receives is at
\* most its maximum, or is NaN; it is NaN exactly when the parameter is
\* present and parseInt makes no integer of it.
C13_ArgsWithinMaximaOrNaN ==
    output # None
        => LET a == output[1]
           IN  /\ IsNaN(a.width) \/ a.width[1] <= MaxWidthOf(a.useBmp)
               /\ IsNaN(a.height) \/ a.height[1] <= MaxHeightOf(a.useBmp)
               /\ IsNaN(a.maxIter) \/ a.maxIter[1] <= 800
               /\ IsNaN(a.width) <=> input.widthParam = Some(NaN)
               /\ IsNaN(a.height) <=> input.heightParam = Some(NaN)
               /\ IsNaN(a.maxIter) <=> input.iterParam = Some(NaN)

\* a PNG request with a width far above the maximum, no height (the default
\* 432 is above the PNG maximum) and an iter one above the limit
C13_Witness ==
    /\ output # None
    /\ input.bmpParam = Some("false")
    /\ input.widthParam = Some(Num(MaxArg)) /\ output[1].width = Num(320)
    /\ input.heightParam = None /\ output[1].height = Num(200)
    /\ input.iterParam = Some(Num(801)) /\ output[1].maxIter = Num(800)

\* ---- C14 ---------------------------------------------------------------
\* the request names a zero or negative width or height
NonPositive(param) == param # None /\ ~IsNaN(param[1]) /\ param[1][1] <= 0

\* C14 as claimed, for requests that give both sizes as integers: a request
\* with a zero or negative width or height has the values passed on
\* unclamped and ends with an image response.
C14_NonPositiveGivesImage ==
    (/\ resp # None
     /\ ~IsNaN(resp[1].request.widthParam[1])
     /\ ~IsNaN(resp[1].request.heightParam[1])
     /\ \/ NonPositive(resp[1].request.widthParam)
        \/ NonPositive(resp[1].request.heightParam))
        => /\ resp[1].args.width = resp[1].request.widthParam[1]
           /\ resp[1].args.height = resp[1].request.heightParam[1]
           /\ resp[1].outcome = "image"

\* C14 amended: a zero or negative width or height is passed on unclamped.
\* The request ends with an image response when width * height >= 0 and,
\* for PNG, height * (width + 1) >= 0 (a NaN product counts as 0), and, for
\* BMP, neither size is NaN; otherwise a RangeError leaves the handler.
C14_NonPositivePassedOn ==
    (resp # None /\ (\/ NonPositive(resp[1].request.widthParam)
                     \/ NonPositive(resp[1].request.heightParam)))
        => LET r   == resp[1]
               w   == r.args.width
               h   == r.args.height
               nan == IsNaN(w) \/ IsNaN(h)
               ok  == IF nan THEN ~r.args.useBmp
                      ELSE /\ w[1] * h[1] >= 0
                           /\ r.args.useBmp \/ h[1] * (w[1] + 1) >= 0
           IN  /\ w = r.request.widthParam[1]
               /\ h = r.request.heightParam[1]
               /\ r.outcome = IF ok THEN "image" ELSE "exception"
               /\ ok => /\ r.contentType = IF r.args.useBmp THEN "image/bmp"
                                           ELSE "image/png"
                        /\ Len(r.body) >= 68

\* width -2 and height -1 as BMP: a grid of two zero pixels that no loop
\* visited and a file of header and palette only
C14_Witness ==
    /\ resp # None
    /\ resp[1].args.width = Num(-2) /\ resp[1].args.height = Num(-1)
    /\ resp[1].args.useBmp
    /\ resp[1].outcome = "image"
    /\ resp[1].pixelData = <<0, 0>>
    /\ Len(resp[1].body) = 1078

\* ---- C15 ---------------------------------------------------------------
\* the grid generateFractal returns for the arguments in `input` with the
\* variant replaced by `name`
GridOf(name) ==
    generateFractal(Num(input.width), Num(input.height), Num(input.maxIter),
                    input.seed, name, input.seed).pixelData

\* C15: for every variant string other than 'julia' and 'burningship',
\* differently capitalised spellings of them included, generateFractal
\* raises no error and returns the grid it returns for 'mandelbrot'.
C15_UnknownVariantIsMandelbrot ==
    (output # None /\ input.fractalType \notin {"julia", "burningship"})
        => /\ ~output[1].threw
           /\ Len(output[1].pixelData) = input.width * input.height
           /\ output[1].pixelData = GridOf("mandelbrot")

\* 'Julia' on a seed and size where the Julia grid and the Mandelbrot grid
\* differ
C15_Witness ==
    /\ output # None
    /\ input.fractalType = "Julia"
    /\ output[1].pixelData # GridOf("julia")
    /\ \E p \in 1..Len(output[1].pixelData) : output[1].pixelData[p] > 0


\* ------------------------------------------------------------------------
\* Polls and API keys
\* ------------------------------------------------------------------------
\* a step in which fetch handled the pending request
Handled == pending # None /\ pending' = None

\* the pending request is a vote that names a poll and an option
IsVote(req) ==
    req.path = "/poll/vote" /\ req.body.pollId # None /\ req.body.optionIndex # None

\* the poll_voters row a vote request stands for
MarkerOf(req) == <<req.body.pollId[1], createVoterHash(req.body.pollId[1], req, env)>>

RECURSIVE TotalVotes(_)
TotalVotes(options) ==
    IF options = <<>> THEN 0 ELSE Head(options).votes + TotalVotes(Tail(options))

MarkersOf(pollId) == {v \in db.voters : v[1] = pollId}

\* the poll exists, is open at time t and has the option
Votable(d, pollId, optionIndex, t) ==
    /\ HasPoll(d, pollId)
    /\ d.polls[pollId].open <= t /\ t <= d.polls[pollId].close
    /\ 0 <= optionIndex /\ optionIndex < Len(d.polls[pollId].options)

\* every poll counts at most one vote for each of its voter markers
OneVotePerMarker ==
    \A p \in DOMAIN db.polls :
        TotalVotes(db.polls[p].options) <= Cardinality(MarkersOf(p))

\* C16 as stated: every poll counts at most one vote per voter hash since its
\* last reset; a vote whose voter hash is already marked for the poll is
\* answered 409 'You have already voted on this poll' and changes nothing;
\* a vote with an unmarked hash on an open poll is counted.
C16_OneVotePerHash ==
    /\ []OneVotePerMarker
    /\ [][(Handled /\ IsVote(pending[1])) =>
            IF MarkerOf(pending[1]) \in db.voters
            THEN /\ resp'[1].status = 409
                 /\ resp'[1].error = "You have already voted on this poll"
                 /\ db' = db
            ELSE Votable(db, pending[1].body.pollId[1],
                         pending[1].body.optionIndex[1], now)
                 => /\ resp'[1].status = 200
                    /\ MarkerOf(pending[1]) \in db'.voters]_vars

\* C16 amended: every poll counts at most one vote per voter hash since its
\* last reset; a vote whose hash is already marked changes nothing and is
\* answered 409 'You have already voted on this poll' when the poll is open
\* and the option exists, and 400 otherwise; a vote with an unmarked hash on
\* an open poll with that option is answered 200, marked and counted once.
C16_OneVotePerHashWhileOpen ==
    /\ []OneVotePerMarker
    /\ [][(Handled /\ IsVote(pending[1])) =>
            LET p == pending[1].body.pollId[1]
                i == pending[1].body.optionIndex[1]
            IN  IF MarkerOf(pending[1]) \in db.voters
                THEN /\ db' = db
                     /\ IF Votable(db, p, i, now)
                        THEN /\ resp'[1].status = 409
                             /\ resp'[1].error = "You have already voted on this poll"
                        ELSE resp'[1].status = 400
                ELSE Votable(db, p, i, now)
                     => /\ resp'[1].status = 200
                        /\ db'.voters = db.voters \cup {MarkerOf(pending[1])}
                        /\ TotalVotes(db'.polls[p].options)
                             = TotalVotes(db.polls[p].options) + 1
                        /\ db'.polls[p].options[i + 1].votes
                             = db.polls[p].options[i + 1].votes + 1]_vars

\* a second vote was answered 409 on a poll two different voters voted on
C16_Witness ==
    /\ resp # None /\ db # None
    /\ resp[1].status = 409
    /\ \E p \in DOMAIN db.polls :
          /\ Cardinality(MarkersOf(p)) = 2
          /\ TotalVotes(db.polls[p].options) = 2

\* the pending request resets a poll that exists
IsReset(req) ==
    req.path = "/poll/reset" /\ req.body.pollId # None /\ HasPoll(db, req.body.pollId[1])

\* whatever belongs to polls other than pollId is the same before and after
OthersUnchanged(pollId) ==
    /\ DOMAIN db'.polls = DOMAIN db.polls
    /\ \A q \in DOMAIN db.polls : q # pollId => db'.polls[q] = db.polls[q]
    /\ {v \in db'.voters : v[1] # pollId} = {v \in db.voters : v[1] # pollId}

\* what every reset does, whatever the close time
ResetEffect(pollId) ==
    /\ resp'[1].status = 200
    /\ db'.polls[pollId].open = now
    /\ \A i \in 1..Len(db'.polls[pollId].options) :
          /\ db'.polls[pollId].options[i].votes = 0
          /\ db'.polls[pollId].options[i].name = db.polls[pollId].options[i].name
    /\ Len(db'.polls[pollId].options) = Len(db.polls[pollId].options)
    /\ {v \in db'.voters : v[1] = pollId} = {}
    /\ \A i \in 0..(Len(db.polls[pollId].options) - 1) : Votable(db', pollId, i, now)
    /\ OthersUnchanged(pollId)

Created ==
    /\ resp # None /\ db # None
    /\ resp[1].request.path = "/poll/new"
    /\ resp[1].status = 200

\* C18: a poll created through /poll/new without a close time closes 24 hours
\* after its creation, and one created without an open time opens at its
\* creation.
C18_DefaultCloseIsOneDay ==
    Created =>
       /\ resp[1].request.body.close = None
            => resp[1].poll[1].close = resp[1].at + MsPerDay
       /\ resp[1].request.body.open = None
            => resp[1].poll[1].open = resp[1].at

\* the pending request is for a protected route and the worker is not in
\* development mode
IsProtected(req) == req.path \in ProtectedPaths /\ ~IsDevelopment(env)

\* the request presents a key that was issued under the worker's MASTER_KEY
\* and has not expired: GoodKey always, TodayKey until the end of time 0
PresentsIssuedKey(req) ==
    /\ env.MASTER_KEY = Some(Master)
    /\ \/ PresentedKey(req) = Some(GoodKey)
       \/ PresentedKey(req) = Some(TodayKey) /\ now <= 0

\* C19 as stated: outside development mode the handler of a protected route
\* runs only for a request whose key validateApiKey accepts; any other
\* request is answered 401 when it presents no key and 403 otherwise, and
\* leaves every poll as it was.
C19_ProtectedRoutes ==
    [][(Handled /\ IsProtected(pending[1])) =>
          IF PresentsIssuedKey(pending[1])
          THEN validateApiKey(pending[1], env, now).valid
          ELSE /\ ~validateApiKey(pending[1], env, now).valid
               /\ ~resp'[1].ran
               /\ db' = db
               /\ resp'[1].status =
                    IF PresentedKey(pending[1]) = None THEN 401 ELSE 403]_vars

\* C19 amended: as stated, except that a worker without MASTER_KEY answers
\* every request to a protected route 403, also one that presents no key.
C19_ProtectedRoutesConfigured ==
    [][(Handled /\ IsProtected(pending[1])) =>
          IF PresentsIssuedKey(pending[1])
          THEN /\ validateApiKey(pending[1], env, now).valid
               /\ resp'[1].ran
          ELSE /\ ~validateApiKey(pending[1], env, now).valid
               /\ ~resp'[1].ran
               /\ db' = db
               /\ resp'[1].status =
                    IF PresentedKey(pending[1]) = None /\ env.MASTER_KEY # None
                    THEN 401 ELSE 403]_vars

\* in production a request without key to delete an existing poll was
\* answered 401 and the poll is still there
C19_Witness ==
    /\ resp # None /\ db # None /\ env # None
    /\ ~IsDevelopment(env)
    /\ resp[1].request.path = "/poll/admin/delete"
    /\ resp[1].status = 401 /\ ~resp[1].ran
    /\ HasPoll(db, "p1")

\* the key generateApiKey printed has been presented to validateApiKey
Validated == resp # None /\ output # None /\ input # None

\* the expiry given to generateApiKey is a date whose start is later than
\* the time of validation
FutureExpiry ==
    /\ FromFormat(input.expiry) # None
    /\ FromFormat(input.expiry)[1] > resp[1].at

\* C20: a key generated by generateApiKey under the worker's MASTER_KEY with
\* an expiry date in the future is accepted by validateApiKey, whether or not
\* it was generated for a resource (poll id).
C20_GeneratedKeyAccepted ==
    (Validated /\ FutureExpiry) => resp[1].result.valid

\* ---- C26 ---------------------------------------------------------------
\* C26: for every PNG size the handler passes on (1..320 x 1..200) the
\* stored-block header is the final-block byte 1, then LEN = height *
\* (width + 1) in 16 bits little-endian, untruncated, then NLEN with
\* LEN + NLEN = 0xFFFF.
C26_StoredBlockHeader ==
    output # None
        => LET hd  == output[1].blockHeader
               len  == hd[2] + 256 * hd[3]
               nlen == hd[4] + 256 * hd[5]
           IN  /\ output[1].width \in 1..320 /\ output[1].height \in 1..200
               /\ Len(hd) = 5
               /\ hd[1] = 1
               /\ \A k \in 2..5 : hd[k] \in 0..255
               /\ len = output[1].height * (output[1].width + 1)
               /\ len + nlen = 65535

\* the largest PNG: 200 rows of 321 bytes, LEN = 64200 = 0xFAC8
C26_Witness ==
    /\ output # None /\ input # None
    /\ input.widthParam = Some(Num(320)) /\ input.heightParam = Some(Num(200))
    /\ output[1].blockHeader = <<1, 200, 250, 55, 5>>

\* ---- C27 ---------------------------------------------------------------
\* the pair <<b, a>> after the first n bytes of S, one byte at a time from
\* a = 1, b = 0
RECURSIVE AdlerSums(_, _)
AdlerSums(S, n) ==
    IF n = 0 THEN <<0, 1>>
    ELSE CHOOSE r \in {<<(prev[1] + prev[2] + S[n]) % 65521, (prev[2] + S[n]) % 65521>> :
                          prev \in {AdlerSums(S, n - 1)}} : TRUE

\* the four bytes that follow the stored block's data in PNG B
AdlerTrailer(B) ==
    LET end == 48 + Len(StoredPayload(B))
    IN  SubSeq(B, end + 1, end + 4)

\* C27: the zlib trailer is b * 65536 + a written high byte first, as an
\* unsigned value, for the sums a and b taken over the scanline bytes.
C27_AdlerTrailer ==
    output # None
        => LET S  == StoredPayload(output[1])
               ba == AdlerSums(S, Len(S))
           IN  /\ Len(S) = input.height * (input.width + 1)
               /\ AdlerTrailer(output[1]) =
                      <<ba[1] \div 256, ba[1] % 256, ba[2] \div 256, ba[2] % 256>>

\* 5 x 3 pixels of value 255: a = 3826 and b = 34443 >= 32768, where
\* (b << 16) | a is negative
C27_Witness ==
    /\ output # None
    /\ input.width = 5 /\ input.height = 3 /\ input.pixelData = Pattern(0, 15)
    /\ AdlerSums(StoredPayload(output[1]), 18) = <<34443, 3826>>
    /\ adler32(StoredPayload(output[1])) < 0
    /\ AdlerTrailer(output[1]) = <<134, 139, 14, 242>>

\* ---- C28 ---------------------------------------------------------------
\* one bit of the reflected CRC-32: shift right, and xor 0xEDB88320 in when
\* the bit shifted out is 1
CrcBit(c) ==
    IF c[2] % 2 = 1 THEN XorU32(<<60856, 33568>>, ShrU32(c, 1)) ELSE ShrU32(c, 1)

RECURSIVE CrcBits(_, _)
CrcBits(c, k) ==
    IF k = 0 THEN c
    ELSE CHOOSE r \in {CrcBits(d, k - 1) : d \in {CrcBit(c)}} : TRUE

\* the register after the first n bytes of S, from 0xFFFFFFFF
RECURSIVE CrcRegister(_, _)
CrcRegister(S, n) ==
    IF n = 0 THEN <<65535, 65535>>
    ELSE CHOOSE r \in {CrcBits(x, 8) : x \in {XorU32(p, <<0, S[n]>>) :
                                              p \in {CrcRegister(S, n - 1)}}} : TRUE

\* the four bytes, high first, of the bit-by-bit CRC-32 of S
CrcBytes(S) ==
    LET r == CrcRegister(S, Len(S))
        c == <<65535 - r[1], 65535 - r[2]>>
    IN  <<c[1] \div 256, c[1] % 256, c[2] \div 256, c[2] % 256>>

\* C28: the last four bytes of the IHDR, IDAT and IEND chunks are the
\* bit-by-bit reflected CRC-32 (polynomial 0xEDB88320, initial value
\* 0xFFFFFFFF, final complement) of the chunk's type and data bytes, the
\* length field left out, high byte first.
C28_ChunkCrc ==
    output # None
        => LET B    == output[1]
               n    == U32BE(B, 33)
               iend == 45 + n
           IN  /\ SubSeq(B, 30, 33) = CrcBytes(SubSeq(B, 13, 29))
               /\ SubSeq(B, 42 + n, 45 + n) = CrcBytes(SubSeq(B, 38, 41 + n))
               /\ SubSeq(B, iend + 9, iend + 12) = CrcBytes(SubSeq(B, iend + 5, iend + 8))
               /\ Len(B) = iend + 12

\* a 5 x 3 image: the IEND chunk ends with AE 42 60 82, the IDAT chunk with
\* the CRC of its 33 type and data bytes
C28_Witness ==
    /\ output # None
    /\ input.width = 5 /\ input.height = 3 /\ input.pixelData = Pattern(1, 15)
    /\ SubSeq(output[1], 83, 86) = <<174, 66, 96, 130>>
    /\ SubSeq(output[1], 71, 74) = CrcBytes(SubSeq(output[1], 38, 70))

\* ---- C30 ---------------------------------------------------------------
\* poll p of d2 is poll p of d with one vote more on option i (0-based) and
\* nothing else changed, and the other polls are those of d
CountedOnce(d, d2, p, i) ==
    /\ DOMAIN d2.polls = DOMAIN d.polls
    /\ \A q \in DOMAIN d.polls \ {p} : d2.polls[q] = d.polls[q]
    /\ d2.polls[p] = [d.polls[p] EXCEPT !.options[i + 1].votes = @ + 1]

\* the message vote fails with when the poll is missing, not open or has no
\* option i
VoteFailure(d, p, i, t) ==
    IF ~HasPoll(d, p) THEN "Poll not found"
    ELSE IF d.polls[p].open > t THEN "Poll has not opened yet"
    ELSE IF d.polls[p].close < t THEN "Poll has closed"
    ELSE "Invalid option index"

Quiescent == \A s \in Slots : input[s] = None

\* C29: whenever no request is in flight, every existing poll counts as
\* many votes as it has voter markers, and every voter marker belongs to an
\* existing poll.
C29_VotesMatchMarkers ==
    Quiescent =>
        /\ \A p \in DOMAIN db.polls :
              TotalVotes(db.polls[p].options) = Cardinality(MarkersOf(p))
        /\ \A v \in db.voters : v[1] \in DOMAIN db.polls

\* ---- C21 ---------------------------------------------------------------
\* the client of the pending request has used up its limit at the time fetch
\* answers
OverLimit(req) ==
    LimitReached(WindowOf(RateData(state, req.ip[1], now), now), RateLimitPerIP(env))

\* C21: fetch checks every request with checkRateLimit before serving it: a
\* request of a client that is over its limit is not answered 200, and a
\* request that is served is counted in the client's KV entry.
C21_EveryRequestChecked ==
    [][Handled =>
          IF OverLimit(pending[1]) THEN resp'[1].status # 200
          ELSE state' # state]_vars

\* ---- C22 ---------------------------------------------------------------
\* C22: for every address and window timestamp checkRateLimit has returned
\* true at most RATE_LIMIT_PER_IP times (200 when unset), however its
\* invocations interleave, and no stored count exceeds the limit.
C22_AtMostLimitPerWindow ==
    /\ \A w \in DOMAIN value : value[w] <= RateLimitPerIP(env)[1]
    /\ \A k \in DOMAIN state : state[k].count <= RateLimitPerIP(env)[1]

\* ---- C23 ---------------------------------------------------------------
\* the hostnames the host list names, the default list when none is configured
AllowedNdjsonHosts == CommaSplit(ValidHostsForNdjson(env), <<>>)

\* C23: /ndjson-to-json fetches the remote URL only when the hostname of the
\* url parameter is exactly one of the allowed hostnames (ntfy.sh and
\* stuarteggerton.com by default); every other hostname is answered 403
\* without a fetch.
C23_OnlyAllowedHostsFetched ==
    [][(Handled /\ pending[1].url # None) =>
          IF pending[1].url[1].hostname \in AllowedNdjsonHosts
          THEN resp'[1].fetched
          ELSE resp'[1].status = 403 /\ ~resp'[1].fetched]_vars

\* ---- C24 ---------------------------------------------------------------
\* C24: once the poll is loaded the page is in phase countdown, where
\* submitVote sends the vote, for as long as the time is before the poll's
\* close time, and it enters the drum roll only at or after that time.
C24_CountsDownToClose ==
    /\ [](state.poll # None /\ now < state.poll[1].close
            => state.phase = "countdown")
    /\ [][state.phase # "drumroll" /\ state'.phase = "drumroll"
            => now >= state'.poll[1].close]_vars

\* ---- C25 ---------------------------------------------------------------
\* the phases in their order
PhaseRank(phase) ==
    IF phase = "idle" THEN 0 ELSE IF phase = "countdown" THEN 1
    ELSE IF phase = "drumroll" THEN 2 ELSE 3

====
